---- MODULE Spec2Model ----
(***************************************************************************)
(* StreamHealer: the incremental JSON-healing state machine and its        *)
(* schema resolver, and the proxy that heals chat completions with it.     *)
(*                                                                         *)
(* Text is a sequence of one-character strings.  An optional value (a     *)
(* TypeScript `T | null` or `T | undefined`) is a sequence of length 0 or  *)
(* 1: <<>> is null/undefined, <<v>> is the value v.                        *)
(***************************************************************************)
EXTENDS Integers, Sequences, FiniteSets, TLC

VARIABLES
    schema,            \* constructor argument: <<>> (no schema) or <<root node>>
    buffer,            \* preamble accumulator
    hasStartedJson,    \* "started"
    stack,             \* sequence of StackFrame, index 1 = root, last = innermost
    inString,
    isEscaped,         \* "escape_next"
    pendingKeyBuffer,  \* characters of the key being read
    input,             \* every character fed to process so far, in call order
    out,               \* concatenation of every process return value so far
    ret,               \* return value of the last call
    call,              \* the last call: "new", "process", "finish", or "again" (a repeated finish)
    calls,             \* number of process calls so far
    mode,              \* how started came about: "none", "opener" or "flush"
    requests,          \* the proxy's requests in flight: request id -> its locals
    healers            \* the healer instances the proxy made: slot -> healer

healerVars == <<schema, buffer, hasStartedJson, stack, inString, isEscaped, pendingKeyBuffer>>
vars == <<schema, buffer, hasStartedJson, stack, inString, isEscaped, pendingKeyBuffer,
          input, out, ret, call, calls, mode, requests, healers>>
callVars == <<input, out, ret, call, calls, mode>>
proxyVars == <<requests, healers>>

----------------------------------------------------------------------------
(* Characters *)

QUOTE == "\""
BACKSLASH == "\\"
LBRACE == "{"
RBRACE == "}"
LBRACKET == "["
RBRACKET == "]"
COMMA == ","
COLON == ":"
Whitespace == {" ", "\n", "\t", "\r"}
Openers == {LBRACE, LBRACKET}

None == <<>>
Some(v) == <<v>>

Last(s) == s[Len(s)]
Front(s) == SubSeq(s, 1, Len(s) - 1)

RECURSIVE Reverse(_)
Reverse(s) == IF s = <<>> THEN <<>> ELSE Reverse(Tail(s)) \o <<Head(s)>>

\* Text of a key name or literal written as a TLA+ tuple of characters.
ka == <<"a">>
kb == <<"b">>
NullText == <<"n", "u", "l", "l">>

----------------------------------------------------------------------------
(* Stack frames *)

NewFrame(closer, isObj) ==
    [char |-> closer, isObject |-> isObj, keysSeen |-> {},
     currentKey |-> None, hasContent |-> FALSE]

\* The stack with field f of its innermost frame set to v (the stack as is when empty).
SetTop(stk, f, v) ==
    IF stk = <<>> THEN stk
    ELSE [stk EXCEPT ![Len(stk)] = [@ EXCEPT ![f] = v]]

ReadingKey_AnyObject(stk) ==
    /\ stk # <<>>
    /\ Last(stk).isObject

\* top && top.isObject && top.currentKey === null
ReadingKey(stk) ==
    /\ stk # <<>>
    /\ Last(stk).isObject
    /\ Last(stk).currentKey = None

----------------------------------------------------------------------------
(* The structural scanner.  A scanner state is the record                  *)
(* [stack, inString, isEscaped, pendingKeyBuffer].                         *)

scanInString_QuoteFirst(s, c) ==
    IF c = QUOTE THEN
        IF ReadingKey(s.stack)
        THEN [s EXCEPT !.inString = FALSE, !.isEscaped = FALSE,
                       !.stack = [@ EXCEPT ![Len(@)] =
                                     [@ EXCEPT !.currentKey = Some(s.pendingKeyBuffer),
                                               !.keysSeen = @ \cup {s.pendingKeyBuffer}]]]
        ELSE [s EXCEPT !.inString = FALSE, !.isEscaped = FALSE]
    ELSE IF s.isEscaped THEN [s EXCEPT !.isEscaped = FALSE]
    ELSE IF c = BACKSLASH THEN [s EXCEPT !.isEscaped = TRUE]
    ELSE IF ReadingKey(s.stack) THEN [s EXCEPT !.pendingKeyBuffer = Append(@, c)]
    ELSE s

\* One iteration of the loop, when inString holds.
scanInString(s, c) ==
    IF s.isEscaped THEN [s EXCEPT !.isEscaped = FALSE]
    ELSE IF c = BACKSLASH THEN [s EXCEPT !.isEscaped = TRUE]
    ELSE IF c = QUOTE THEN
        IF ReadingKey(s.stack)
        THEN [s EXCEPT !.inString = FALSE,
                       !.stack = [@ EXCEPT ![Len(@)] =
                                     [@ EXCEPT !.currentKey = Some(s.pendingKeyBuffer),
                                               !.keysSeen = @ \cup {s.pendingKeyBuffer}]]]
        ELSE [s EXCEPT !.inString = FALSE]
    ELSE
        IF ReadingKey(s.stack)
        THEN [s EXCEPT !.pendingKeyBuffer = Append(@, c)]
        ELSE s

\* Pushing a frame: the parent, if any, now has content.
pushFrame(stk, closer, isObj) ==
    Append(SetTop(stk, "hasContent", TRUE), NewFrame(closer, isObj))

\* A closer pops the innermost frame when it is that frame's closer, and is
\* ignored otherwise.
popFrame_BraceOnly(stk, c) ==
    IF stk # <<>> /\ Last(stk).char = c /\ c = RBRACE THEN Front(stk) ELSE stk

popFrame_AnyCloser(stk, c) ==
    IF stk # <<>> THEN Front(stk) ELSE stk

popFrame(stk, c) ==
    IF stk # <<>> /\ Last(stk).char = c THEN Front(stk) ELSE stk

RECURSIVE resetKey_Enclosing(_)
resetKey_Enclosing(stk) ==
    IF stk = <<>> THEN stk
    ELSE IF Last(stk).isObject THEN SetTop(stk, "currentKey", None)
    ELSE Append(resetKey_Enclosing(Front(stk)), Last(stk))

\* A comma: the next string of the innermost frame, if an object, is a key again.
resetKey(stk) ==
    IF stk # <<>> /\ Last(stk).isObject
    THEN SetTop(stk, "currentKey", None)
    ELSE stk

\* One iteration of the loop, outside a string.
scanOutside(s, c) ==
    IF c = QUOTE THEN
        [s EXCEPT !.inString = TRUE,
                  !.pendingKeyBuffer = <<>>,
                  !.stack = SetTop(@, "hasContent", TRUE)]
    ELSE IF c = COLON THEN s
    ELSE IF c = COMMA THEN [s EXCEPT !.stack = resetKey(@)]
    ELSE IF c = LBRACE THEN [s EXCEPT !.stack = pushFrame(@, RBRACE, TRUE)]
    ELSE IF c = LBRACKET THEN [s EXCEPT !.stack = pushFrame(@, RBRACKET, FALSE)]
    ELSE IF c \in {RBRACE, RBRACKET} THEN [s EXCEPT !.stack = popFrame(@, c)]
    ELSE IF c \in Whitespace THEN s
    ELSE [s EXCEPT !.stack = SetTop(@, "hasContent", TRUE)]

scanChar_ClosersFirst(s, c) ==
    IF c \in {RBRACE, RBRACKET} THEN scanOutside(s, c)
    ELSE IF s.inString THEN scanInString(s, c) ELSE scanOutside(s, c)

scanChar(s, c) == IF s.inString THEN scanInString(s, c) ELSE scanOutside(s, c)

\* The loop over the characters of text, in order.  The text is scanned half by
\* half, the state after the first half being computed before the second half is
\* entered, so that a long text needs little nesting.
RECURSIVE analyzeState(_, _)
analyzeState(s, text) ==
    IF text = <<>> THEN s
    ELSE IF Len(text) = 1 THEN scanChar(s, text[1])
    ELSE LET half == Len(text) \div 2
             mid == analyzeState(s, SubSeq(text, 1, half))
         IN IF mid.inString \in BOOLEAN
            THEN analyzeState(mid, SubSeq(text, half + 1, Len(text)))
            ELSE mid

----------------------------------------------------------------------------
(* Schema nodes.  A node is a function from field names to values; a field *)
(* that is absent is not in its DOMAIN.  Fields: "required" (a sequence of *)
(* names), "properties" (a function from names to nodes), "items" (a       *)
(* node), "default" (a JSON value), "$ref" (the reference split on "/"),   *)
(* and the pools "definitions", "$defs", "components" (functions from pool *)
(* entry names to nodes).                                                  *)

Has(node, f) == f \in DOMAIN node

\* Bound on the number of $ref hops followed from one node.
MAX_REF_DEPTH == 32

\* Follow the segments of a pointer from a node; None when a segment is missing.
RECURSIVE followSegments(_, _)
followSegments(node, segs) ==
    IF segs = <<>> THEN Some(node)
    ELSE IF Has(node, Head(segs)) THEN followSegments(node[Head(segs)], Tail(segs))
    ELSE None

\* A fragment-local reference "#/seg/.../name", split on "/": the leading "#" is
\* dropped and the segments are followed from the root.
followPointer(root, ref) ==
    IF ref = <<>> \/ Head(ref) # "#" THEN None
    ELSE followSegments(root, Tail(ref))

resolveRef_OneHop(root, node, hops) ==
    IF ~Has(node, "$ref") THEN Some(node)
    ELSE IF hops = 0 THEN None
    ELSE followPointer(root, node["$ref"])

\* Resolve a node through its chain of $ref, at most `hops` of them.
RECURSIVE resolveRef(_, _, _)
resolveRef(root, node, hops) ==
    IF ~Has(node, "$ref") THEN Some(node)
    ELSE IF hops = 0 THEN None
    ELSE LET target == followPointer(root, node["$ref"]) IN
         IF target = None THEN None
         ELSE resolveRef(root, target[1], hops - 1)

RECURSIVE descendTo_StayOnMiss(_, _, _, _, _)
descendTo_StayOnMiss(root, stk, cur, i, d) ==
    LET r == resolveRef(root, cur, MAX_REF_DEPTH) IN
    IF r = None THEN None
    ELSE IF i = d THEN r
    ELSE LET node == r[1]
             frame == stk[i]
         IN IF ~frame.isObject /\ Has(node, "items")
            THEN descendTo_StayOnMiss(root, stk, node.items, i + 1, d)
            ELSE IF /\ frame.isObject
                    /\ frame.currentKey # None
                    /\ Has(node, "properties")
                    /\ frame.currentKey[1] \in DOMAIN node.properties
            THEN descendTo_StayOnMiss(root, stk, node.properties[frame.currentKey[1]],
                                      i + 1, d)
            ELSE descendTo_StayOnMiss(root, stk, node, i + 1, d)

RECURSIVE descendTo_TypeTested(_, _, _, _, _)
descendTo_TypeTested(root, stk, cur, i, d) ==
    LET r == resolveRef(root, cur, MAX_REF_DEPTH) IN
    IF r = None THEN None
    ELSE IF i = d THEN r
    ELSE LET node == r[1]
             frame == stk[i]
         IN IF /\ ~frame.isObject
               /\ Has(node, "type")
               /\ node.type = "array"
               /\ Has(node, "items")
            THEN descendTo_TypeTested(root, stk, node.items, i + 1, d)
            ELSE IF /\ frame.isObject
                    /\ frame.currentKey # None
                    /\ Has(node, "properties")
                    /\ frame.currentKey[1] \in DOMAIN node.properties
            THEN descendTo_TypeTested(root, stk, node.properties[frame.currentKey[1]],
                                      i + 1, d)
            ELSE None

\* The sub-schema governing stack frame d (1 = root frame), walking down from
\* frame i with `cur` the unresolved schema of frame i.  None is "unknown".
RECURSIVE descendTo(_, _, _, _, _)
descendTo(root, stk, cur, i, d) ==
    LET r == resolveRef(root, cur, MAX_REF_DEPTH) IN
    IF r = None THEN None
    ELSE IF i = d THEN r
    ELSE LET node == r[1]
             frame == stk[i]
         IN IF ~frame.isObject /\ Has(node, "items")
            THEN descendTo(root, stk, node.items, i + 1, d)
            ELSE IF /\ frame.isObject
                    /\ frame.currentKey # None
                    /\ Has(node, "properties")
                    /\ frame.currentKey[1] \in DOMAIN node.properties
            THEN descendTo(root, stk, node.properties[frame.currentKey[1]], i + 1, d)
            ELSE None

getSchemaAt(root, stk, d) == descendTo(root, stk, root, 1, d)

filterMissing_Seen(required, keysSeen) ==
    SelectSeq(required, LAMBDA req : req \in keysSeen)

filterMissing_Reversed(required, keysSeen) ==
    Reverse(SelectSeq(required, LAMBDA req : req \notin keysSeen))

\* required \ keysSeen, in the order of the required list.
filterMissing(required, keysSeen) ==
    SelectSeq(required, LAMBDA req : req \notin keysSeen)

\* A schema is any JSON value, so a keyword may hold a value of the wrong type.
\* A node names under nonList the keywords whose value is not an array (the
\* value is then a string, kept as its characters).
IsList(node, f) == ~(Has(node, "nonList") /\ f \in node.nonList)

getMissingRequiredKeys_Unchecked(sch, stk, d) ==
    IF sch = None THEN <<>>
    ELSE LET sub == getSchemaAt(sch[1], stk, d) IN
         IF sub = None THEN <<>>
         ELSE IF ~Has(sub[1], "required") THEN <<>>
         ELSE IF IsList(sub[1], "required")
              THEN filterMissing(sub[1].required, stk[d].keysSeen)
              ELSE filterMissing([j \in 1..Len(sub[1].required) |-> <<sub[1].required[j]>>],
                                 stk[d].keysSeen)

getMissingRequiredKeys_TypeTested(sch, stk, d) ==
    IF sch = None THEN <<>>
    ELSE LET sub == getSchemaAt(sch[1], stk, d) IN
         IF sub = None THEN <<>>
         ELSE IF ~(Has(sub[1], "type") /\ sub[1].type = "object") THEN <<>>
         ELSE IF ~Has(sub[1], "required") THEN <<>>
         ELSE IF ~IsList(sub[1], "required") THEN <<>>
         ELSE filterMissing(sub[1].required, stk[d].keysSeen)

\* The names to inject into stack frame d: empty when there is no schema, the
\* governing sub-schema is unknown, or it declares no list of required names.
getMissingRequiredKeys(sch, stk, d) ==
    IF sch = None THEN <<>>
    ELSE LET sub == getSchemaAt(sch[1], stk, d) IN
         IF sub = None THEN <<>>
         ELSE IF ~Has(sub[1], "required") THEN <<>>
         ELSE IF ~IsList(sub[1], "required") THEN <<>>
         ELSE filterMissing(sub[1].required, stk[d].keysSeen)

----------------------------------------------------------------------------
(* JSON values (schema defaults) and their compact serialization.  A value *)
(* is [t |-> "null"], [t |-> "boolean", v |-> BOOLEAN], [t |-> "number",   *)
(* v |-> its digits as text], [t |-> "string", v |-> text] or              *)
(* [t |-> "array", v |-> sequence of values].                              *)

JNull == [t |-> "null"]
JString(text) == [t |-> "string", v |-> text]
JNumber(text) == [t |-> "number", v |-> text]
JBool(b) == [t |-> "boolean", v |-> b]
JArray(vs) == [t |-> "array", v |-> vs]

\* The characters of a string, escaped as JSON.stringify escapes them.
escapeChar(c) ==
    IF c = QUOTE THEN <<BACKSLASH, QUOTE>>
    ELSE IF c = BACKSLASH THEN <<BACKSLASH, BACKSLASH>>
    ELSE <<c>>

RECURSIVE escapeText(_)
escapeText(text) ==
    IF text = <<>> THEN <<>> ELSE escapeChar(Head(text)) \o escapeText(Tail(text))

quoted(text) == <<QUOTE>> \o escapeText(text) \o <<QUOTE>>

\* The texts joined by bare commas.
RECURSIVE joinComma(_)
joinComma(texts) ==
    IF texts = <<>> THEN <<>>
    ELSE IF Len(texts) = 1 THEN Head(texts)
    ELSE Head(texts) \o <<COMMA>> \o joinComma(Tail(texts))

RECURSIVE stringify(_)
stringify(val) ==
    IF val.t = "null" THEN NullText
    ELSE IF val.t = "boolean"
         THEN (IF val.v THEN <<"t", "r", "u", "e">> ELSE <<"f", "a", "l", "s", "e">>)
    ELSE IF val.t = "number" THEN val.v
    ELSE IF val.t = "string" THEN quoted(val.v)
    ELSE <<LBRACKET>> \o joinComma([j \in 1..Len(val.v) |-> stringify(val.v[j])])
         \o <<RBRACKET>>

defaultFor_NoRef(root, sub, k) ==
    IF ~Has(sub, "properties") THEN NullText
    ELSE IF k \notin DOMAIN sub.properties THEN NullText
    ELSE IF Has(sub.properties[k], "default")
         THEN stringify(sub.properties[k]["default"])
         ELSE NullText

\* The value injected for missing name k under governing sub-schema `sub`:
\* sub.properties[k], resolved through $ref, supplies `default`; else null.
defaultFor(root, sub, k) ==
    IF ~Has(sub, "properties") THEN NullText
    ELSE IF k \notin DOMAIN sub.properties THEN NullText
    ELSE LET p == resolveRef(root, sub.properties[k], MAX_REF_DEPTH) IN
         IF p = None THEN NullText
         ELSE IF Has(p[1], "default") THEN stringify(p[1]["default"])
         ELSE NullText

\* "k":v
entry(k, v) == <<QUOTE>> \o k \o <<QUOTE, COLON>> \o v

----------------------------------------------------------------------------
(* The healer.  A healer is the record of its fields.                      *)

NewHealer(sch) ==
    [schema |-> sch, buffer |-> <<>>, hasStartedJson |-> FALSE, stack |-> <<>>,
     inString |-> FALSE, isEscaped |-> FALSE, pendingKeyBuffer |-> <<>>]

MAX_PREAMBLE_BUFFER == 500

\* String.prototype.search(/[{\[]/): the 0-based index of the first opener, or -1.
searchOpener(text) ==
    LET at == {j \in 1..Len(text) : text[j] \in Openers} IN
    IF at = {} THEN -1
    ELSE (CHOOSE j \in at : \A k \in at : j <= k) - 1

slice_Whole(text, start) == text

\* String.prototype.slice(start) for 0 <= start.
slice(text, start) == SubSeq(text, start + 1, Len(text))

scannerOf(h) ==
    [stack |-> h.stack, inString |-> h.inString, isEscaped |-> h.isEscaped,
     pendingKeyBuffer |-> h.pendingKeyBuffer]

withScanner(h, s) ==
    [h EXCEPT !.stack = s.stack, !.inString = s.inString, !.isEscaped = s.isEscaped,
              !.pendingKeyBuffer = s.pendingKeyBuffer]

analyze(h, text) == withScanner(h, analyzeState(scannerOf(h), text))

exceedsPreamble_AtBound(text) == Len(text) >= MAX_PREAMBLE_BUFFER

exceedsPreamble_Late(text) == Len(text) > MAX_PREAMBLE_BUFFER + 1

\* The length test of the preamble safety bound.
exceedsPreamble(text) == Len(text) > MAX_PREAMBLE_BUFFER

streamJson_Drop(h, chunk) == [h |-> analyze(h, chunk), ret |-> <<>>, mode |-> "same"]

\* Phase 2, once started: the chunk is scanned and returned as it is.
streamJson(h, chunk) == [h |-> analyze(h, chunk), ret |-> chunk, mode |-> "same"]

\* process(chunk): the healer after the call and the returned text.
process(h, chunk) ==
    IF ~h.hasStartedJson THEN
        LET buf == h.buffer \o chunk
            startIdx == searchOpener(buf)
        IN IF startIdx # -1 THEN
               LET validPayload == slice(buf, startIdx) IN
               [h |-> analyze([h EXCEPT !.hasStartedJson = TRUE, !.buffer = <<>>],
                              validPayload),
                ret |-> validPayload, mode |-> "opener"]
           ELSE IF exceedsPreamble(buf) THEN
               [h |-> analyze([h EXCEPT !.hasStartedJson = TRUE, !.buffer = <<>>], buf),
                ret |-> buf, mode |-> "flush"]
           ELSE [h |-> [h EXCEPT !.buffer = buf], ret |-> <<>>, mode |-> "none"]
    ELSE streamJson(h, chunk)

injectionFor_KeysSeen(sch, stk, d) ==
    IF ~stk[d].isObject THEN <<>>
    ELSE LET missing == getMissingRequiredKeys(sch, stk, d) IN
         IF missing = <<>> THEN <<>>
         ELSE LET sub == getSchemaAt(sch[1], stk, d)[1]
                  entries == [j \in 1..Len(missing) |->
                                 entry(missing[j], defaultFor(sch[1], sub, missing[j]))]
              IN (IF stk[d].keysSeen # {} THEN <<COMMA>> ELSE <<>>) \o joinComma(entries)

\* The injection for stack frame d: the missing entries joined by commas, after a
\* comma when the frame has content; empty for arrays and when nothing is missing.
injectionFor(sch, stk, d) ==
    IF ~stk[d].isObject THEN <<>>
    ELSE LET missing == getMissingRequiredKeys(sch, stk, d) IN
         IF missing = <<>> THEN <<>>
         ELSE LET sub == getSchemaAt(sch[1], stk, d)[1]
                  entries == [j \in 1..Len(missing) |->
                                 entry(missing[j], defaultFor(sch[1], sub, missing[j]))]
              IN (IF stk[d].hasContent THEN <<COMMA>> ELSE <<>>) \o joinComma(entries)

RECURSIVE closeFrames_RootFirst(_, _, _)
closeFrames_RootFirst(sch, stk, d) ==
    IF d = 0 THEN <<>>
    ELSE closeFrames_RootFirst(sch, stk, d - 1) \o injectionFor(sch, stk, d)
         \o <<stk[d].char>>

\* Frames d, d-1, ..., 1: each frame's injection, then its closer.
RECURSIVE closeFrames(_, _, _)

closeFrames(sch, stk, d) ==
    IF d = 0 THEN <<>>
    ELSE injectionFor(sch, stk, d) \o <<stk[d].char>> \o closeFrames(sch, stk, d - 1)

stackAtFinish_AnyObject(h) ==
    IF h.inString /\ h.stack # <<>> /\ Last(h.stack).isObject
    THEN SetTop(h.stack, "keysSeen", Last(h.stack).keysSeen \cup {h.pendingKeyBuffer})
    ELSE h.stack

\* The stack on which the tail is computed: a key left open counts as seen.
stackAtFinish(h) ==
    IF h.inString /\ ReadingKey(h.stack)
    THEN SetTop(h.stack, "keysSeen", Last(h.stack).keysSeen \cup {h.pendingKeyBuffer})
    ELSE h.stack

\* The quote that closes an open string.
closeString(h) == IF h.inString THEN <<QUOTE>> ELSE <<>>

finishUnstarted_Empty(h) == <<>>

\* The tail of a healer that never started: the buffered text, as it arrived.
finishUnstarted(h) == IF Len(h.buffer) = 0 THEN <<>> ELSE h.buffer

finish_Consuming(h) ==
    IF ~h.hasStartedJson THEN [h |-> [h EXCEPT !.buffer = <<>>], ret |-> finishUnstarted(h)]
    ELSE LET stk == stackAtFinish(h) IN
         [h |-> [h EXCEPT !.stack = <<>>, !.inString = FALSE],
          ret |-> closeString(h) \o closeFrames(h.schema, stk, Len(stk))]

\* finish(): the healer after the call and the returned tail.
finish(h) ==
    IF ~h.hasStartedJson THEN [h |-> h, ret |-> finishUnstarted(h)]
    ELSE LET stk == stackAtFinish(h) IN
         [h |-> [h EXCEPT !.stack = stk],
          ret |-> closeString(h) \o closeFrames(h.schema, stk, Len(stk))]

\* Healing a whole text with a fresh healer: process(text) + finish().
healProcess(sch, text) == process(NewHealer(sch), text)
healFinish(sch, text) == finish(healProcess(sch, text).h)
heal(sch, text) == healProcess(sch, text).ret \o healFinish(sch, text).ret

----------------------------------------------------------------------------
(* Schemas the healer is constructed with. *)

\* {required: [a, b]}
SchemaAB == [required |-> <<ka, kb>>]

\* {required: [b, a], properties: {a: {default: "x"}, b: {default: 1}}}
SchemaDefaults ==
    [required |-> <<kb, ka>>,
     properties |-> (ka :> [default |-> JString(<<"x">>)]
                     @@ kb :> [default |-> JNumber(<<"1">>)])]

\* {required: [a, b],
\*  properties: {a: {$ref: "#/definitions/A"}, b: {items: {$ref: "#/$defs/B"}}},
\*  definitions: {A: {required: [b, a],
\*                    properties: {a: {$ref: "#/definitions/A"}, b: {default: "x"}}}},
\*  $defs: {B: {$ref: "#/definitions/A"}}}
SchemaRef ==
    [required |-> <<ka, kb>>,
     properties |-> (ka :> ("$ref" :> <<"#", "definitions", "A">>)
                     @@ kb :> [items |-> ("$ref" :> <<"#", "$defs", "B">>)]),
     definitions |->
        [A |-> [required |-> <<kb, ka>>,
                properties |-> (ka :> ("$ref" :> <<"#", "definitions", "A">>)
                                @@ kb :> [default |-> JString(<<"x">>)])]]]
    @@ ("$defs" :> [B |-> ("$ref" :> <<"#", "definitions", "A">>)])

----------------------------------------------------------------------------
(* The state machine: a healer is constructed, fed chunks, and finished.   *)

Self ==
    [schema |-> schema, buffer |-> buffer, hasStartedJson |-> hasStartedJson,
     stack |-> stack, inString |-> inString, isEscaped |-> isEscaped,
     pendingKeyBuffer |-> pendingKeyBuffer]

Becomes(h) ==
    /\ schema' = h.schema
    /\ buffer' = h.buffer
    /\ hasStartedJson' = h.hasStartedJson
    /\ stack' = h.stack
    /\ inString' = h.inString
    /\ isEscaped' = h.isEscaped
    /\ pendingKeyBuffer' = h.pendingKeyBuffer

Constructed(schemas) ==
    /\ schema \in schemas
    /\ buffer = <<>>
    /\ hasStartedJson = FALSE
    /\ stack = <<>>
    /\ inString = FALSE
    /\ isEscaped = FALSE
    /\ pendingKeyBuffer = <<>>
    /\ input = <<>>
    /\ out = <<>>
    /\ ret = <<>>
    /\ call = "new"
    /\ calls = 0
    /\ mode = "none"
    /\ requests = <<>>
    /\ healers = <<>>

\* healer.process(chunk)
Process(chunk) ==
    /\ call \in {"new", "process"}
    /\ LET r == process(Self, chunk) IN
        /\ Becomes(r.h)
        /\ ret' = r.ret
        /\ out' = out \o r.ret
        /\ mode' = IF r.mode = "same" THEN mode ELSE r.mode
    /\ input' = input \o chunk
    /\ call' = "process"
    /\ calls' = calls + 1
    /\ UNCHANGED proxyVars

\* healer.finish(), once, after the last chunk
Finish ==
    /\ call \in {"new", "process"}
    /\ LET r == finish(Self) IN
        /\ Becomes(r.h)
        /\ ret' = r.ret
    /\ call' = "finish"
    /\ UNCHANGED <<input, out, calls, mode>>
    /\ UNCHANGED proxyVars

\* healer.finish() called on a healer that has been finished: `call` becomes
\* "again".
FinishAgain ==
    /\ call \in {"finish", "again"}
    /\ LET r == finish(Self) IN
        /\ Becomes(r.h)
        /\ ret' = r.ret
    /\ call' = "again"
    /\ UNCHANGED <<input, out, calls, mode>>
    /\ UNCHANGED proxyVars

\* The healed output: every process return value, then the tail.
Healed == out \o ret
Finished == call = "finish"

----------------------------------------------------------------------------
(* Spec: arbitrary text, in chunks of one or two characters.               *)

MaxInput == 3
Alphabet == {LBRACE, RBRACE, LBRACKET, RBRACKET, QUOTE, BACKSLASH, COMMA, COLON,
             "a", "b", "1", " "}
Chunks == {<<c>> : c \in Alphabet} \cup {<<c, d>> : c \in Alphabet, d \in Alphabet}

Init == Constructed({None, Some(SchemaAB)})

Feed == \E chunk \in Chunks :
            /\ Len(input) + Len(chunk) <= MaxInput
            /\ Process(chunk)

Next == Feed \/ Finish

Spec == Init /\ [][Next]_vars

----------------------------------------------------------------------------
(* JSON syntax (RFC 8259), as a pushdown recogniser over text.  Its state  *)
(* is [mode, stk, isKey, rest]: what may come next, the open containers    *)
(* ("o" object, "a" array), whether the string being read is a key, and    *)
(* the characters a literal or \u escape still needs.                      *)

Digits == {"0", "1", "2", "3", "4", "5", "6", "7", "8", "9"}
HexDigits == Digits \cup {"a", "b", "c", "d", "e", "f", "A", "B", "C", "D", "E", "F"}
SimpleEscapes == {QUOTE, BACKSLASH, "/", "b", "f", "n", "r", "t"}
NumberDone == {"numZero", "numInt", "numFrac", "numExp"}

JsonStart == [mode |-> "value", stk |-> <<>>, isKey |-> FALSE, rest |-> <<>>]
JsonBad(p) == [p EXCEPT !.mode = "bad"]

\* A character where a value has just ended.
jsonAfter(p, c) ==
    IF c \in Whitespace THEN [p EXCEPT !.mode = "after"]
    ELSE IF p.stk = <<>> THEN JsonBad(p)
    ELSE IF c = COMMA
         THEN [p EXCEPT !.mode = IF Last(p.stk) = "o" THEN "key" ELSE "value"]
    ELSE IF (c = RBRACE /\ Last(p.stk) = "o") \/ (c = RBRACKET /\ Last(p.stk) = "a")
         THEN [p EXCEPT !.mode = "after", !.stk = Front(@)]
    ELSE JsonBad(p)

\* A character where a value must begin.
jsonValue(p, c) ==
    IF c \in Whitespace THEN p
    ELSE IF c = LBRACE THEN [p EXCEPT !.mode = "keyOrEnd", !.stk = Append(@, "o")]
    ELSE IF c = LBRACKET THEN [p EXCEPT !.mode = "valueOrEnd", !.stk = Append(@, "a")]
    ELSE IF c = QUOTE THEN [p EXCEPT !.mode = "str", !.isKey = FALSE]
    ELSE IF c = "-" THEN [p EXCEPT !.mode = "numSign"]
    ELSE IF c = "0" THEN [p EXCEPT !.mode = "numZero"]
    ELSE IF c \in Digits THEN [p EXCEPT !.mode = "numInt"]
    ELSE IF c = "t" THEN [p EXCEPT !.mode = "lit", !.rest = <<"r", "u", "e">>]
    ELSE IF c = "f" THEN [p EXCEPT !.mode = "lit", !.rest = <<"a", "l", "s", "e">>]
    ELSE IF c = "n" THEN [p EXCEPT !.mode = "lit", !.rest = <<"u", "l", "l">>]
    ELSE JsonBad(p)

jsonStep(p, c) ==
    LET m == p.mode IN
    IF m = "bad" THEN p
    ELSE IF m = "value" THEN jsonValue(p, c)
    ELSE IF m = "valueOrEnd" THEN
        IF c = RBRACKET THEN [p EXCEPT !.mode = "after", !.stk = Front(@)]
        ELSE IF c \in Whitespace THEN p
        ELSE jsonValue([p EXCEPT !.mode = "value"], c)
    ELSE IF m = "keyOrEnd" THEN
        IF c = RBRACE THEN [p EXCEPT !.mode = "after", !.stk = Front(@)]
        ELSE IF c \in Whitespace THEN p
        ELSE IF c = QUOTE THEN [p EXCEPT !.mode = "str", !.isKey = TRUE]
        ELSE JsonBad(p)
    ELSE IF m = "key" THEN
        IF c \in Whitespace THEN p
        ELSE IF c = QUOTE THEN [p EXCEPT !.mode = "str", !.isKey = TRUE]
        ELSE JsonBad(p)
    ELSE IF m = "colon" THEN
        IF c \in Whitespace THEN p
        ELSE IF c = COLON THEN [p EXCEPT !.mode = "value"]
        ELSE JsonBad(p)
    ELSE IF m = "after" THEN jsonAfter(p, c)
    ELSE IF m = "str" THEN
        IF c = BACKSLASH THEN [p EXCEPT !.mode = "esc"]
        ELSE IF c = QUOTE THEN [p EXCEPT !.mode = IF p.isKey THEN "colon" ELSE "after"]
        ELSE IF c \in {"\n", "\t", "\r"} THEN JsonBad(p)
        ELSE p
    ELSE IF m = "esc" THEN
        IF c \in SimpleEscapes THEN [p EXCEPT !.mode = "str"]
        ELSE IF c = "u" THEN [p EXCEPT !.mode = "hex", !.rest = <<"h", "h", "h", "h">>]
        ELSE JsonBad(p)
    ELSE IF m = "hex" THEN
        IF c \notin HexDigits THEN JsonBad(p)
        ELSE IF Len(p.rest) = 1 THEN [p EXCEPT !.mode = "str", !.rest = <<>>]
        ELSE [p EXCEPT !.rest = Tail(@)]
    ELSE IF m = "lit" THEN
        IF c # Head(p.rest) THEN JsonBad(p)
        ELSE IF Len(p.rest) = 1 THEN [p EXCEPT !.mode = "after", !.rest = <<>>]
        ELSE [p EXCEPT !.rest = Tail(@)]
    ELSE IF m = "numSign" THEN
        IF c = "0" THEN [p EXCEPT !.mode = "numZero"]
        ELSE IF c \in Digits THEN [p EXCEPT !.mode = "numInt"]
        ELSE JsonBad(p)
    ELSE IF m = "numDot" THEN
        IF c \in Digits THEN [p EXCEPT !.mode = "numFrac"] ELSE JsonBad(p)
    ELSE IF m = "numE" THEN
        IF c \in {"+", "-"} THEN [p EXCEPT !.mode = "numESign"]
        ELSE IF c \in Digits THEN [p EXCEPT !.mode = "numExp"]
        ELSE JsonBad(p)
    ELSE IF m = "numESign" THEN
        IF c \in Digits THEN [p EXCEPT !.mode = "numExp"] ELSE JsonBad(p)
    ELSE \* a number that may end here
        IF c \in Digits /\ m # "numZero"
        THEN p
        ELSE IF c = "." /\ m \in {"numZero", "numInt"} THEN [p EXCEPT !.mode = "numDot"]
        ELSE IF c \in {"e", "E"} /\ m # "numExp" THEN [p EXCEPT !.mode = "numE"]
        ELSE jsonAfter(p, c)

RECURSIVE jsonRun(_, _)
jsonRun(p, text) ==
    IF text = <<>> THEN p ELSE jsonRun(jsonStep(p, Head(text)), Tail(text))

\* text is a complete JSON document
ValidJson(text) ==
    LET p == jsonRun(JsonStart, text) IN
    /\ p.stk = <<>>
    /\ p.mode \in NumberDone \cup {"after"}

\* text is a prefix of some JSON document (every state but "bad" can be completed)
JsonPrefix(text) == jsonRun(JsonStart, text).mode # "bad"

NoOpener(text) == \A j \in 1..Len(text) : text[j] \notin Openers

\* text is a preamble without opener followed by a prefix of a JSON document that
\* has begun (its first character is the first character of a token)
PreambleThenJsonPrefix(text) ==
    \E j \in 0..(Len(text) - 1) :
        /\ NoOpener(SubSeq(text, 1, j))
        /\ text[j + 1] \notin Whitespace
        /\ JsonPrefix(SubSeq(text, j + 1, Len(text)))

----------------------------------------------------------------------------
(* SpecJson: a preamble followed by a prefix of a JSON document, fed in    *)
(* tokens (single characters, and whole keys with their colon).            *)

MaxTokens == 5
KeyA == <<QUOTE, "a", QUOTE, COLON>>
KeyB == <<QUOTE, "b", QUOTE, COLON>>
Tokens == {<<c>> : c \in {LBRACE, RBRACE, LBRACKET, RBRACKET, QUOTE, BACKSLASH, COMMA,
                          "a", "1"}}
          \cup {KeyA, KeyB}

\* The conversational text that may precede the document: none, or "a: ".
Preambles == {<<>>, <<"a", COLON, " ">>}

IsPrefixOf(pre, text) == Len(pre) <= Len(text) /\ SubSeq(text, 1, Len(pre)) = pre

\* text is one of the preambles followed by a prefix of a JSON object or array
GeneratedJson(text) ==
    \E pre \in Preambles :
        /\ IsPrefixOf(pre, text)
        /\ LET body == SubSeq(text, Len(pre) + 1, Len(text)) IN
            \/ body = <<>>
            \/ Head(body) \in Openers /\ JsonPrefix(body)

InitJson == Constructed({None, Some(SchemaRef)})

FeedPreamble == \E pre \in Preambles :
                    /\ call = "new"
                    /\ pre # <<>>
                    /\ Process(pre)

FeedJson == \E chunk \in Tokens :
                /\ calls < MaxTokens
                /\ GeneratedJson(input \o chunk)
                /\ Process(chunk)

NextJson == FeedPreamble \/ FeedJson \/ Finish

SpecJson == InitJson /\ [][NextJson]_vars

----------------------------------------------------------------------------
(* Reading a tail back: the text after the string-closing quote is cut at  *)
(* each closer that is outside a string and outside an injected value.     *)

\* State: the finished segments [text, closer], the text of the open segment,
\* and the position within it (in a string, after a backslash, nesting depth).
TailStart == [segs |-> <<>>, cur |-> <<>>, inStr |-> FALSE, esc |-> FALSE, depth |-> 0]

tailStep(t, c) ==
    IF t.inStr THEN
        IF t.esc THEN [t EXCEPT !.cur = Append(@, c), !.esc = FALSE]
        ELSE IF c = BACKSLASH THEN [t EXCEPT !.cur = Append(@, c), !.esc = TRUE]
        ELSE IF c = QUOTE THEN [t EXCEPT !.cur = Append(@, c), !.inStr = FALSE]
        ELSE [t EXCEPT !.cur = Append(@, c)]
    ELSE IF c = QUOTE THEN [t EXCEPT !.cur = Append(@, c), !.inStr = TRUE]
    ELSE IF c \in Openers THEN [t EXCEPT !.cur = Append(@, c), !.depth = @ + 1]
    ELSE IF c \in {RBRACE, RBRACKET} THEN
        IF t.depth > 0 THEN [t EXCEPT !.cur = Append(@, c), !.depth = @ - 1]
        ELSE [t EXCEPT !.segs = Append(@, [text |-> t.cur, closer |-> c]), !.cur = <<>>]
    ELSE [t EXCEPT !.cur = Append(@, c)]

RECURSIVE tailRun(_, _)
tailRun(t, text) ==
    IF text = <<>> THEN t ELSE tailRun(tailStep(t, Head(text)), Tail(text))

\* The tail of the finished healer, without the quote that closed an open string.
TailAfterQuote == IF inString THEN Tail(ret) ELSE ret
TailParse == tailRun(TailStart, TailAfterQuote)

\* The segment of stack frame d: the innermost frame comes first in the tail.
SegmentOf(d) == TailParse.segs[Len(stack) + 1 - d]

\* An injection text cut at its commas outside strings and nested values.
SplitStart == [parts |-> <<>>, cur |-> <<>>, inStr |-> FALSE, esc |-> FALSE, depth |-> 0]

splitStep(t, c) ==
    IF t.inStr THEN
        IF t.esc THEN [t EXCEPT !.cur = Append(@, c), !.esc = FALSE]
        ELSE IF c = BACKSLASH THEN [t EXCEPT !.cur = Append(@, c), !.esc = TRUE]
        ELSE IF c = QUOTE THEN [t EXCEPT !.cur = Append(@, c), !.inStr = FALSE]
        ELSE [t EXCEPT !.cur = Append(@, c)]
    ELSE IF c = COMMA /\ t.depth = 0
         THEN [t EXCEPT !.parts = Append(@, t.cur), !.cur = <<>>]
    ELSE IF c = QUOTE THEN [t EXCEPT !.cur = Append(@, c), !.inStr = TRUE]
    ELSE IF c \in Openers THEN [t EXCEPT !.cur = Append(@, c), !.depth = @ + 1]
    ELSE IF c \in {RBRACE, RBRACKET} THEN [t EXCEPT !.cur = Append(@, c), !.depth = @ - 1]
    ELSE [t EXCEPT !.cur = Append(@, c)]

RECURSIVE splitRun(_, _)
splitRun(t, text) ==
    IF text = <<>> THEN Append(t.parts, t.cur)
    ELSE splitRun(splitStep(t, Head(text)), Tail(text))

SplitCommas(text) == splitRun(SplitStart, text)

\* The position of the first quote at or after position j (0 when there is none).
RECURSIVE findQuote(_, _)
findQuote(text, j) ==
    IF j > Len(text) THEN 0
    ELSE IF text[j] = QUOTE THEN j
    ELSE findQuote(text, j + 1)

\* An entry "k":v read back as [ok, key, value].
ParseEntry(part) ==
    LET close == findQuote(part, 2) IN
    IF Len(part) < 4 \/ part[1] # QUOTE \/ close = 0 \/ close + 1 > Len(part)
       \/ part[close + 1] # COLON
    THEN [ok |-> FALSE, key |-> <<>>, value |-> <<>>]
    ELSE [ok |-> TRUE, key |-> SubSeq(part, 2, close - 1),
          value |-> SubSeq(part, close + 2, Len(part))]

\* An injection read back as [ok, comma, keys, values].
ParseInjection(text) ==
    IF text = <<>> THEN [ok |-> TRUE, comma |-> FALSE, keys |-> <<>>, values |-> <<>>]
    ELSE LET parts == SplitCommas(text)
             lead == Head(parts) = <<>>
             body == IF lead THEN Tail(parts) ELSE parts
             es == [j \in 1..Len(body) |-> ParseEntry(body[j])]
         IN [ok |-> body # <<>> /\ \A j \in 1..Len(es) : es[j].ok,
             comma |-> lead,
             keys |-> [j \in 1..Len(es) |-> es[j].key],
             values |-> [j \in 1..Len(es) |-> es[j].value]]

Range(seq) == {seq[j] : j \in 1..Len(seq)}

\* The governing sub-schema of frame d of the finished healer, when it is known
\* and lists required names.
Governed(d) ==
    /\ stack[d].isObject
    /\ schema # None
    /\ getSchemaAt(schema[1], stack, d) # None
    /\ Has(getSchemaAt(schema[1], stack, d)[1], "required")
Governing(d) == getSchemaAt(schema[1], stack, d)[1]

----------------------------------------------------------------------------
(* Claims *)

\* C1: for an input made of a preamble without `{` or `[` followed by a prefix of a
\* valid JSON document, the process outputs followed by the finish output form a
\* syntactically valid JSON document.
C1_WellFormed ==
    (Finished /\ PreambleThenJsonPrefix(input)) => ValidJson(Healed)

C9_TailStructure ==
    (Finished /\ hasStartedJson) =>
        /\ inString => (ret # <<>> /\ Head(ret) = QUOTE)
        /\ Len(TailParse.segs) = Len(stack)
        /\ TailParse.cur = <<>>
        /\ \A d \in 1..Len(stack) :
              /\ SegmentOf(d).closer = stack[d].char
              /\ ParseInjection(SegmentOf(d).text).ok
              /\ (schema = None \/ ~stack[d].isObject) => SegmentOf(d).text = <<>>
        /\ schema = None =>
              ret = (IF inString THEN <<QUOTE>> ELSE <<>>)
                    \o Reverse([d \in 1..Len(stack) |-> stack[d].char])

\* C9 witness: an open string inside an array inside an object, with a schema, the
\* root frame receiving an injection.
C9_Witness ==
    /\ Finished
    /\ inString
    /\ schema # None
    /\ Len(stack) = 2
    /\ ~stack[2].isObject
    /\ SegmentOf(2).text = <<>>
    /\ SegmentOf(1).text # <<>>

\* The value of name k under sub-schema `sub` has no default.
NoDefault(sub, k) ==
    \/ ~Has(sub, "properties")
    \/ k \notin DOMAIN sub.properties
    \/ resolveRef(schema[1], sub.properties[k], MAX_REF_DEPTH) = None
    \/ ~Has(resolveRef(schema[1], sub.properties[k], MAX_REF_DEPTH)[1], "default")

\* The subsequence of seq whose elements are not in set S, order kept.
RECURSIVE Without(_, _)
Without(seq, S) ==
    IF seq = <<>> THEN <<>>
    ELSE IF Head(seq) \in S THEN Without(Tail(seq), S)
    ELSE <<Head(seq)>> \o Without(Tail(seq), S)

----------------------------------------------------------------------------
(* Claims about arbitrary text (Spec) *)

\* The text from its first opener onward (empty when it has none).
FromFirstOpener(text) ==
    IF NoOpener(text) THEN <<>>
    ELSE LET first == CHOOSE j \in 1..Len(text) :
                          /\ text[j] \in Openers
                          /\ NoOpener(SubSeq(text, 1, j - 1))
         IN SubSeq(text, first, Len(text))

C4_Idempotent ==
    (Finished /\ hasStartedJson) =>
        /\ healProcess(schema, Healed).ret = Healed
        /\ healFinish(schema, Healed).ret = <<>>

\* C5: the process call that brings the first opener into the buffer of a healer
\* that has not started sets started, empties the buffer and returns exactly the
\* buffered text from that opener to its end; from then on the emitted text is
\* the input from the first opener onward, so that no character before the opener
\* is emitted by process, and the tail finish returns is the tail of a healer that
\* was fed the text from the opener onward only.
C5_StepStrips ==
    (~hasStartedJson /\ call' = "process" /\ ~NoOpener(input')) =>
        /\ hasStartedJson'
        /\ mode' = "opener"
        /\ buffer' = <<>>
        /\ ret' = FromFirstOpener(buffer \o SubSeq(input', Len(input) + 1, Len(input')))
        /\ ret' = FromFirstOpener(input')

C5_Stripped ==
    mode = "opener" =>
        /\ hasStartedJson
        /\ buffer = <<>>
        /\ out = FromFirstOpener(input)
        /\ Finished => ret = healFinish(schema, FromFirstOpener(input)).ret

C5_PreambleStripping == [][C5_StepStrips]_vars /\ [](C5_Stripped)

\* C5 witness: a preamble and an opener arriving in separate chunks, the preamble
\* dropped and the text from the opener emitted.
C5_Witness ==
    /\ mode = "opener"
    /\ calls >= 2
    /\ Len(input) = MaxInput
    /\ input[1] \notin Openers
    /\ input[2] \notin Openers
    /\ input[3] \in Openers
    /\ out = SubSeq(input, 3, Len(input))

----------------------------------------------------------------------------
(* SpecFlush: long text around the preamble bound, fed in blocks of 250    *)
(* characters (a space, then letters) and in single characters.            *)

MaxCalls == 5
BlockLen == 250
Block == [j \in 1..BlockLen |-> IF j = 1 THEN " " ELSE "a"]
FlushChunks == {Block, <<"a">>, <<" ">>, <<QUOTE>>, <<LBRACE>>}

InitFlush == Constructed({None})

FeedFlush == \E chunk \in FlushChunks :
                 /\ calls < MaxCalls
                 /\ Process(chunk)

NextFlush == FeedFlush \/ Finish

SpecFlush == InitFlush /\ [][NextFlush]_vars

\* The chunk of the process call that a step makes.
ChunkOfStep == SubSeq(input', Len(input) + 1, Len(input'))

\* C6: on input without opener, the process call that makes the accumulated length
\* exceed 500 returns the whole accumulated text, every earlier call returned the
\* empty string, every later call returns its chunk, and so the process outputs
\* concatenate to the whole input.
C6_StepFlush ==
    (call' = "process" /\ NoOpener(input')) =>
        /\ (Len(input') <= 500) => (ret' = <<>> /\ ~hasStartedJson')
        /\ (Len(input) <= 500 /\ Len(input') > 500) =>
              (ret' = input' /\ hasStartedJson' /\ mode' = "flush")
        /\ (Len(input) > 500) => (ret' = ChunkOfStep)

C6_NothingLost ==
    (NoOpener(input) /\ Len(input) > 500) => (hasStartedJson /\ out = input)

C6_PreambleSafety == [][C6_StepFlush]_vars /\ [](C6_NothingLost)

\* C6 witness: the bound crossed by one character, then another chunk forwarded.
C6_Witness ==
    /\ mode = "flush"
    /\ NoOpener(input)
    /\ Len(input) = 502
    /\ calls = 4
    /\ out = input
    /\ ret = <<QUOTE>>

\* C7: while no opener has been seen and the accumulated length is at most 500,
\* every process call returns the empty string, and finish then returns exactly the
\* accumulated text (empty for empty input, the whitespace for whitespace).
C7_StepBuffers ==
    (call' = "process" /\ NoOpener(input') /\ Len(input') <= 500) =>
        (ret' = <<>> /\ out' = <<>> /\ buffer' = input')

C7_FinishReturnsBuffer ==
    (Finished /\ NoOpener(input) /\ Len(input) <= 500) => (out = <<>> /\ ret = input)

C7_NeverStarted == [][C7_StepBuffers]_vars /\ [](C7_FinishReturnsBuffer)

\* C7 witness: exactly 500 characters buffered, whitespace among them, returned by
\* finish.
C7_Witness ==
    /\ Finished
    /\ Len(input) = 500
    /\ \E j \in 1..Len(input) : input[j] = " "
    /\ ret = input

\* C8 as stated: once started, every process(chunk) returns chunk unchanged, so the
\* emitted text is the input from the first opener onward.
C8_StepVerbatim ==
    (hasStartedJson /\ call' = "process") => (ret' = ChunkOfStep /\ out' = out \o ChunkOfStep)

C8_FromOpener ==
    (hasStartedJson /\ ~NoOpener(input)) => out = FromFirstOpener(input)

C8_Verbatim == [][C8_StepVerbatim]_vars /\ [](C8_FromOpener)

\* C8 amended: once started, every process(chunk) returns chunk unchanged, so the
\* emitted text is the input from the first opener onward when the opener started
\* the healer, and the whole input when the preamble flush started it, in call
\* order, with nothing altered, dropped or reordered.
C8_Emitted ==
    /\ mode = "opener" => out = FromFirstOpener(input)
    /\ mode = "flush" => out = input
    /\ hasStartedJson <=> mode \in {"opener", "flush"}

C8_VerbatimAmended == [][C8_StepVerbatim]_vars /\ [](C8_Emitted)

\* C8 witness: a healer started by an opener after a buffered block, two more
\* chunks forwarded as they came.
C8_Witness ==
    /\ mode = "opener"
    /\ calls = 4
    /\ Len(input) = BlockLen + 3
    /\ out = SubSeq(input, BlockLen + 1, Len(input))
    /\ ret = <<QUOTE>>

----------------------------------------------------------------------------
(* Claims about the injection's comma and values *)

\* C11: a non-empty injection for a frame is preceded by a comma if and only if
\* that frame's hasContent is true; outside a string a quote, a digit or a letter
\* sets hasContent of the innermost frame, an opener sets it on the parent and
\* pushes a frame without content, and whitespace, a colon or a comma leave it as
\* it was; an empty object gets its injection without a leading comma.
C11_StepContent ==
    (call' = "process" /\ hasStartedJson /\ ~inString /\ stack # <<>>
     /\ Len(ChunkOfStep) = 1) =>
        LET c == ChunkOfStep[1]
            d == Len(stack)
        IN /\ c \in {QUOTE, "1", "a", "b"} =>
                  (Len(stack') = d /\ stack'[d].hasContent)
           /\ c \in Openers =>
                  (Len(stack') = d + 1 /\ stack'[d].hasContent
                   /\ ~stack'[d + 1].hasContent)
           /\ c \in Whitespace \cup {COLON, COMMA} =>
                  (Len(stack') = d /\ stack'[d].hasContent = stack[d].hasContent)
           /\ c \notin {RBRACE, RBRACKET} =>
                  \A e \in 1..d : stack[e].hasContent => stack'[e].hasContent

C11_CommaIffContent ==
    (Finished /\ hasStartedJson) =>
        /\ Len(TailParse.segs) = Len(stack)
        /\ \A d \in 1..Len(stack) :
              SegmentOf(d).text # <<>> =>
                  (ParseInjection(SegmentOf(d).text).comma <=> stack[d].hasContent)

C11_WitnessEmpty ==
    /\ Finished
    /\ schema # None
    /\ input = <<LBRACE>>
    /\ ~stack[1].hasContent
    /\ Head(ret) = QUOTE
    /\ ~ParseInjection(SegmentOf(1).text).comma

----------------------------------------------------------------------------
(* SpecSchemas: the generated JSON of SpecJson under schemas with defaults, *)
(* references into the three pools, and paths the schema does not cover.    *)

\* {required: [a],
\*  properties: {a: {$ref: "#/definitions/C"}},
\*  definitions: {C: {required: [b, a], properties: {b: {$ref: "#/definitions/D"}}},
\*                D: {$ref: "#/$defs/E"}},
\*  $defs: {E: {default: [true, "q\""]}}}
SchemaDefaultsRef ==
    [required |-> <<ka>>,
     properties |-> (ka :> ("$ref" :> <<"#", "definitions", "C">>)),
     definitions |->
        [C |-> [required |-> <<kb, ka>>,
                properties |-> (kb :> ("$ref" :> <<"#", "definitions", "D">>))],
         D |-> ("$ref" :> <<"#", "$defs", "E">>)]]
    @@ ("$defs" :> [E |-> [default |-> JArray(<<JBool(TRUE), JString(<<"q", QUOTE>>)>>)]])

\* {required: [a],
\*  properties: {a: {$ref: "#/components/schemas/P"}, b: {items: {$ref: "#/$defs/Q"}}},
\*  components: {schemas: {P: {$ref: "#/$defs/Q"}}},
\*  $defs: {Q: {required: [b], properties: {a: {$ref: "#/components/schemas/P"}}}}}
SchemaPools ==
    [required |-> <<ka>>,
     properties |-> (ka :> ("$ref" :> <<"#", "components", "schemas", "P">>)
                     @@ kb :> [items |-> ("$ref" :> <<"#", "$defs", "Q">>)]),
     components |-> [schemas |-> [P |-> ("$ref" :> <<"#", "$defs", "Q">>)]]]
    @@ ("$defs" :>
          [Q |-> [required |-> <<kb>>,
                  properties |->
                      (ka :> ("$ref" :> <<"#", "components", "schemas", "P">>))]])

\* {required: [a, b],
\*  properties: {a: {$ref: "#/definitions/Missing"}, b: {required: [a, b]}}}
SchemaUnknown ==
    [required |-> <<ka, kb>>,
     properties |-> (ka :> ("$ref" :> <<"#", "definitions", "Missing">>)
                     @@ kb :> [required |-> <<ka, kb>>])]

InitSchemas ==
    Constructed({Some(SchemaDefaults), Some(SchemaDefaultsRef), Some(SchemaRef),
                 Some(SchemaPools), Some(SchemaUnknown)})

SpecSchemas == InitSchemas /\ [][NextJson]_vars

\* Malformed schemas.
\* {required: [a, b],
\*  properties: {a: {required: "b", properties: {a: {required: [b]}}},
\*               b: {$ref: "#/definitions/X"}},
\*  definitions: {X: {$ref: "#/definitions/Y", required: [b]},
\*                Y: {$ref: "#/definitions/X", required: [a]}}}
SchemaMalformed ==
    [required |-> <<ka, kb>>,
     properties |-> (ka :> [required |-> <<"b">>, nonList |-> {"required"},
                            properties |-> (ka :> [required |-> <<kb>>])]
                     @@ kb :> ("$ref" :> <<"#", "definitions", "X">>)),
     definitions |->
        [X |-> ("$ref" :> <<"#", "definitions", "Y">> @@ "required" :> <<kb>>),
         Y |-> ("$ref" :> <<"#", "definitions", "X">> @@ "required" :> <<ka>>)]]

\* {required: "ab"}
SchemaBadRoot == [required |-> <<"a", "b">>, nonList |-> {"required"}]

\* {$ref: "#/definitions/X", definitions: {X: {$ref: "#/definitions/X", required: [a]}}}
SchemaCyclicRoot ==
    [definitions |-> [X |-> ("$ref" :> <<"#", "definitions", "X">>
                             @@ "required" :> <<ka>>)]]
    @@ ("$ref" :> <<"#", "definitions", "X">>)

InitMalformed ==
    Constructed({Some(SchemaMalformed), Some(SchemaBadRoot), Some(SchemaCyclicRoot)})

\* Any text: up to MaxText chunks, each one character or a key with its colon.
MaxText == 3
TextChunks == {<<c>> : c \in Alphabet} \cup {KeyA, KeyB}

FeedText == \E chunk \in TextChunks :
                /\ calls < MaxText
                /\ Process(chunk)

NextMalformed == FeedText \/ Finish

\* SpecMalformed: arbitrary text under malformed schemas.
SpecMalformed == InitMalformed /\ [][NextMalformed]_vars

\* The shape of each schema, resolved by hand: for every node a frame can be
\* governed by, its required list, the node each property and the items lead to
\* ("?" where the schema gives none) and the text of each property's default.
NoMap == [k \in {} |-> "?"]
ShapeNode(req, props, items, defaults) ==
    [req |-> req, props |-> props, items |-> items, defaults |-> defaults]

ShapeDefaults ==
    [R |-> ShapeNode(<<kb, ka>>, (ka :> "L" @@ kb :> "L"), "?",
                     (ka :> <<QUOTE, "x", QUOTE>> @@ kb :> <<"1">>)),
     L |-> ShapeNode(<<>>, NoMap, "?", NoMap)]

ShapeDefaultsRef ==
    [R |-> ShapeNode(<<ka>>, (ka :> "C"), "?", NoMap),
     C |-> ShapeNode(<<kb, ka>>, (kb :> "L"), "?",
                     (kb :> <<LBRACKET, "t", "r", "u", "e", COMMA,
                              QUOTE, "q", BACKSLASH, QUOTE, QUOTE, RBRACKET>>)),
     L |-> ShapeNode(<<>>, NoMap, "?", NoMap)]

ShapeRef ==
    [R |-> ShapeNode(<<ka, kb>>, (ka :> "A" @@ kb :> "N"), "?", NoMap),
     A |-> ShapeNode(<<kb, ka>>, (ka :> "A" @@ kb :> "L"), "?",
                     (kb :> <<QUOTE, "x", QUOTE>>)),
     N |-> ShapeNode(<<>>, NoMap, "A", NoMap),
     L |-> ShapeNode(<<>>, NoMap, "?", NoMap)]

ShapePools ==
    [R |-> ShapeNode(<<ka>>, (ka :> "Q" @@ kb :> "N"), "?", NoMap),
     Q |-> ShapeNode(<<kb>>, (ka :> "Q"), "?", NoMap),
     N |-> ShapeNode(<<>>, NoMap, "Q", NoMap)]

ShapeUnknown ==
    [R |-> ShapeNode(<<ka, kb>>, (kb :> "B"), "?", NoMap),
     B |-> ShapeNode(<<ka, kb>>, NoMap, "?", NoMap)]

\* A node whose required is no list, and a reference that runs in a cycle, give
\* nothing to inject: M has no required names, the cycle leads nowhere.
ShapeMalformed ==
    [R |-> ShapeNode(<<ka, kb>>, (ka :> "M"), "?", NoMap),
     M |-> ShapeNode(<<>>, (ka :> "K"), "?", NoMap),
     K |-> ShapeNode(<<kb>>, NoMap, "?", NoMap)]

ShapeBadRoot == [R |-> ShapeNode(<<>>, NoMap, "?", NoMap)]
ShapeCyclicRoot == [R |-> ShapeNode(<<>>, NoMap, "?", NoMap)]

ShapeOf(sch) ==
    IF Has(sch, "nonList") THEN ShapeBadRoot
    ELSE IF Has(sch, "$ref") THEN ShapeCyclicRoot
    ELSE IF sch = SchemaMalformed THEN ShapeMalformed
    ELSE IF sch = SchemaDefaults THEN ShapeDefaults
    ELSE IF sch = SchemaDefaultsRef THEN ShapeDefaultsRef
    ELSE IF sch = SchemaRef THEN ShapeRef
    ELSE IF sch = SchemaPools THEN ShapePools
    ELSE ShapeUnknown

\* The node of the shape reached for frame d, walking down from frame i at `node`.
RECURSIVE walkShape(_, _, _, _, _)
walkShape(shape, stk, node, i, d) ==
    IF node = "?" THEN "?"
    ELSE IF i = d THEN node
    ELSE LET n == shape[node]
             frame == stk[i]
         IN IF ~frame.isObject THEN walkShape(shape, stk, n.items, i + 1, d)
            ELSE IF frame.currentKey = None THEN "?"
            ELSE IF frame.currentKey[1] \in DOMAIN n.props
            THEN walkShape(shape, stk, n.props[frame.currentKey[1]], i + 1, d)
            ELSE "?"

\* The shape node governing frame d of the healer ("?" when none does).
NodeOf(d) == walkShape(ShapeOf(schema[1]), stack, "R", 1, d)
Shaped(d) == ShapeOf(schema[1])[NodeOf(d)]

C14_UnknownPath ==
    (Finished /\ hasStartedJson) =>
        /\ Len(TailParse.segs) = Len(stack)
        /\ \A d \in 1..Len(stack) :
              NodeOf(d) = "?" =>
                  /\ SegmentOf(d).text = <<>>
                  /\ SegmentOf(d).closer = stack[d].char
                  /\ \A e \in 1..Len(stack) :
                        (stack[e].isObject /\ NodeOf(e) # "?") =>
                            /\ SegmentOf(e).closer = stack[e].char
                            /\ ParseInjection(SegmentOf(e).text).keys =
                                   Without(Shaped(e).req, stack[e].keysSeen)

\* C14 witness: an object under a key whose $ref does not resolve, closed without
\* injection, inside a root object that receives its own injection.
C14_Witness ==
    /\ Finished
    /\ schema = Some(SchemaUnknown)
    /\ Len(stack) = 2
    /\ stack[2].isObject
    /\ stack[1].currentKey = Some(ka)
    /\ NodeOf(2) = "?"
    /\ SegmentOf(2).text = <<>>
    /\ ParseInjection(SegmentOf(1).text).keys = <<kb>>

\* C14 second witness: an object inside an array for which the schema gives no
\* items, closed without injection.
C14_WitnessNoItems ==
    /\ Finished
    /\ schema = Some(SchemaUnknown)
    /\ Len(stack) = 3
    /\ stack[1].currentKey = Some(kb)
    /\ ~stack[2].isObject
    /\ stack[3].isObject
    /\ NodeOf(3) = "?"
    /\ SegmentOf(3).text = <<>>

\* C14 third witness: an object under a key for which the governing node has no
\* properties entry, closed without injection, its parent injected.
C14_WitnessNoProperty ==
    /\ Finished
    /\ schema = Some(SchemaUnknown)
    /\ Len(stack) = 3
    /\ NodeOf(2) = "B"
    /\ stack[2].currentKey = Some(ka)
    /\ NodeOf(3) = "?"
    /\ SegmentOf(3).text = <<>>
    /\ ParseInjection(SegmentOf(2).text).keys = <<kb>>

\* The characters a returned text can hold: those of the input and of null.
TextChars == Alphabet \cup {"n", "u", "l"}

C15_WitnessCyclic ==
    /\ Finished
    /\ schema = Some(SchemaMalformed)
    /\ Len(stack) = 2
    /\ stack[2].isObject
    /\ stack[1].currentKey = Some(kb)
    /\ ret = <<RBRACE, COMMA, QUOTE, "a", QUOTE, COLON>> \o NullText \o <<RBRACE>>

\* C15 third witness: text that is no JSON, under a schema whose root is malformed.
C15_WitnessText ==
    /\ Finished
    /\ schema = Some(SchemaBadRoot)
    /\ input = <<LBRACE, RBRACKET, QUOTE>>
    /\ ret = <<QUOTE, RBRACE>>

----------------------------------------------------------------------------
(* The proxy (createProxy.fetch).  A request is the record of the locals   *)
(* of one call of fetch; an action is the code between two awaits.         *)
(*                                                                         *)
(* An upstream SSE body is a sequence of tokens, each [kind, content]:     *)
(* "prefix" is the text `data: `, "json" a chunk whose                     *)
(* choices[0].delta.content is `content`, "role" a chunk without content,  *)
(* "DONE" the text [DONE], "text" any other text, "nl" a line feed.  A     *)
(* read hands over any number of the tokens not yet read.                  *)

Tok(kind, content) == [kind |-> kind, content |-> content]
PREFIX == Tok("prefix", <<>>)
NL == Tok("nl", <<>>)
DONE == Tok("DONE", <<>>)
ROLE == Tok("role", <<>>)
Json(content) == Tok("json", content)

\* The frames the proxy enqueues on its response stream.  raw is the text
\* between the quotes of "content" in a data frame; line the tokens of a line
\* passed through.
DataFrame(raw) == [kind |-> "data", raw |-> raw, line |-> <<>>]
LineFrame(line) == [kind |-> "line", raw |-> <<>>, line |-> line]
DoneFrame == [kind |-> "DONE", raw |-> <<>>, line |-> <<>>]

\* closure.replace(/"/g, '\\"')
RECURSIVE replaceQuotes(_)
replaceQuotes(text) ==
    IF text = <<>> THEN <<>>
    ELSE (IF Head(text) = QUOTE THEN <<BACKSLASH, QUOTE>> ELSE <<Head(text)>>)
         \o replaceQuotes(Tail(text))

\* What a JSON parser reads from the text between the quotes of a string: None
\* when that text is no string body (a bare quote or a lone backslash).
RECURSIVE jsonUnescape(_)
jsonUnescape(raw) ==
    IF raw = <<>> THEN Some(<<>>)
    ELSE IF Head(raw) = QUOTE THEN None
    ELSE IF Head(raw) = BACKSLASH
         THEN IF Len(raw) < 2 \/ raw[2] \notin {QUOTE, BACKSLASH} THEN None
              ELSE LET rest == jsonUnescape(SubSeq(raw, 3, Len(raw))) IN
                   IF rest = None THEN None ELSE Some(<<raw[2]>> \o rest[1])
         ELSE LET rest == jsonUnescape(Tail(raw)) IN
              IF rest = None THEN None ELSE Some(<<Head(raw)>> \o rest[1])

----------------------------------------------------------------------------
(* stripDefaults.  The code recurses over any value; here the recursion is *)
(* written keyword by keyword: a node's sub-nodes are under items, its     *)
(* maps of nodes under properties (keyed by property name), definitions    *)
(* and $defs (keyed by definition name).                                   *)

kdefault == <<"d", "e", "f", "a", "u", "l", "t">>

\* The function f without the key k.
Remove(f, k) == [x \in DOMAIN f \ {k} |-> f[x]]

\* delete newSchema.default: `what` tells what the object is, a schema "node", the
\* map under "properties" (its keys are property names, as text), the map under
\* "definitions" or "$defs", or the object under "components".
deleteDefault(f, what) ==
    IF what = "properties" THEN Remove(f, kdefault) ELSE Remove(f, "default")

\* What the object under `key` of an object is.
childOf(what, key) ==
    IF what # "node" THEN (IF what = "components" THEN "definitions" ELSE "node")
    ELSE IF key = "properties" THEN "properties"
    ELSE IF key \in {"definitions", "$defs"} THEN "definitions"
    ELSE IF key = "components" THEN "components"
    ELSE IF key = "items" THEN "node"
    ELSE "leaf"

RECURSIVE stripDefaults(_, _)
stripDefaults(sch, what) ==
    LET newSchema == deleteDefault(sch, what) IN
    [key \in DOMAIN newSchema |->
        IF childOf(what, key) = "leaf" THEN newSchema[key]
        ELSE stripDefaults(newSchema[key], childOf(what, key))]

----------------------------------------------------------------------------
(* fetch: the request body, the decision to heal, the upstream call.       *)

\* body.response_format: type, and json_schema?.schema (None when absent)
ResponseFormat(type, sch) == [type |-> type, schema |-> sch]

\* The locals schema and shouldHeal, and the body as forwarded.  The copy made
\* by JSON.parse(JSON.stringify(schema)) is the value itself: values do not alias.
lookAtFormat_Always(body) ==
    IF body.response_format = None
    THEN [schema |-> None, shouldHeal |-> TRUE, body |-> body]
    ELSE LET rf == body.response_format[1] IN
         IF rf.type = "json_schema" /\ rf.schema # None
         THEN [schema |-> rf.schema, shouldHeal |-> TRUE,
               body |-> [body EXCEPT !.response_format =
                            Some([rf EXCEPT !.schema =
                                     Some(stripDefaults(rf.schema[1], "node"))])]]
         ELSE [schema |-> None, shouldHeal |-> TRUE, body |-> body]

lookAtFormat(body) ==
    IF body.response_format = None
    THEN [schema |-> None, shouldHeal |-> FALSE, body |-> body]
    ELSE LET rf == body.response_format[1] IN
         IF rf.type = "json_schema" /\ rf.schema # None
         THEN [schema |-> rf.schema, shouldHeal |-> TRUE,
               body |-> [body EXCEPT !.response_format =
                            Some([rf EXCEPT !.schema =
                                     Some(stripDefaults(rf.schema[1], "node"))])]]
         ELSE IF rf.type = "json_object"
         THEN [schema |-> None, shouldHeal |-> TRUE, body |-> body]
         ELSE [schema |-> None, shouldHeal |-> FALSE, body |-> body]

\* The healer instance a request uses: one of its own.
slotOf_Shared(id) == 1
slotOf(id) == id

\* A request as it arrives, a POST to the completions path unless routed
\* elsewhere: its body, and what upstream will answer to it (the status, the
\* message content of a JSON answer or the text of an error answer, the tokens of
\* an SSE answer).
COMPLETIONS == "/v1/chat/completions"

NewRequest(body, up) ==
    [method |-> "POST", path |-> COMPLETIONS,
     body |-> body, up |-> up, pc |-> "received",
     schema |-> None, shouldHeal |-> FALSE, forwarded |-> None,
     rest |-> <<>>, cur |-> None, buffer |-> <<>>,
     sent |-> <<>>, closed |-> FALSE,
     fed |-> <<>>, finished |-> FALSE, finishes |-> 0,
     response |-> None]

\* buffer.split('\n'): the lines, the last being what follows the last line feed
RECURSIVE splitLines(_, _)
splitLines(toks, line) ==
    IF toks = <<>> THEN <<line>>
    ELSE IF Head(toks) = NL THEN <<line>> \o splitLines(Tail(toks), <<>>)
    ELSE splitLines(Tail(toks), Append(line, Head(toks)))

\* One line of the loop over lines; st is [h, sent, fed], the healer, the frames
\* enqueued and the contents given to healer.process so far.
handleLine(st, line, shouldHeal) ==
    LET pass == [st EXCEPT !.sent = Append(@, LineFrame(line))] IN
    IF line # <<>> /\ Head(line) = PREFIX
    THEN LET data == Tail(line) IN
         IF data = <<DONE>> THEN st
         ELSE IF Len(data) = 1 /\ data[1].kind = "json" /\ data[1].content # <<>>
         THEN LET content == data[1].content
                  r == process(st.h, content)
                  healed == IF shouldHeal THEN r.ret ELSE content
                  after == IF shouldHeal
                           THEN [st EXCEPT !.h = r.h, !.fed = Append(@, content)]
                           ELSE st
              IN IF healed # <<>>
                 THEN [after EXCEPT !.sent = Append(@, DataFrame(escapeText(healed)))]
                 ELSE after
         ELSE pass
    ELSE IF line # <<>> THEN pass
    ELSE st

RECURSIVE handleLines(_, _, _)
handleLines(st, lines, shouldHeal) ==
    IF lines = <<>> THEN st
    ELSE handleLines(handleLine(st, Head(lines), shouldHeal), Tail(lines), shouldHeal)

\* data: {"choices":[{"delta":{"content":"${closure.replace(/"/g, '\\"')}"}}]}
TailFrame(closure) == DataFrame(replaceQuotes(closure))

handleRead_NoBreak(r, h) ==
    IF r.cur[1].done
    THEN IF r.shouldHeal
         THEN LET f == finish(h)
                  closure == f.ret
              IN [r |-> [r EXCEPT !.sent = (IF closure # <<>>
                                             THEN Append(@, TailFrame(closure))
                                             ELSE @) \o <<DoneFrame>>,
                                   !.finished = TRUE,
                                   !.finishes = @ + 1,
                                   !.cur = None,
                                   !.pc = "reading"],
                  h |-> f.h]
         ELSE LET lines == splitLines(r.buffer \o r.cur[1].value, <<>>)
                  st == handleLines([h |-> h, sent |-> r.sent, fed |-> r.fed],
                                    Front(lines), r.shouldHeal)
              IN [r |-> [r EXCEPT !.buffer = Last(lines),
                                   !.sent = st.sent,
                                   !.fed = st.fed,
                                   !.cur = None,
                                   !.pc = "reading"],
                  h |-> st.h]
    ELSE [r |-> [r EXCEPT !.cur = None, !.pc = "reading"], h |-> h]

\* The body of the while loop after reader.read() has resolved with r.cur, up
\* to the next read or the break: [r, h], the request and its healer after it.
handleRead(r, h) ==
    IF r.cur[1].done
    THEN IF r.shouldHeal
         THEN LET f == finish(h)
                  closure == f.ret
              IN [r |-> [r EXCEPT !.sent = (IF closure # <<>>
                                             THEN Append(@, TailFrame(closure))
                                             ELSE @) \o <<DoneFrame>>,
                                   !.closed = TRUE,
                                   !.finished = TRUE,
                                   !.finishes = @ + 1,
                                   !.cur = None,
                                   !.pc = "done"],
                  h |-> f.h]
         ELSE LET lines == splitLines(r.buffer \o r.cur[1].value, <<>>)
                  st == handleLines([h |-> h, sent |-> r.sent, fed |-> r.fed],
                                    Front(lines), r.shouldHeal)
              IN [r |-> [r EXCEPT !.buffer = Last(lines),
                                   !.sent = st.sent,
                                   !.fed = st.fed,
                                   !.cur = None,
                                   !.pc = "reading"],
                  h |-> st.h]
    ELSE [r |-> [r EXCEPT !.cur = None, !.pc = "reading"], h |-> h]

\* The non-streaming answer: [content, h, healed], the content returned, the
\* healer after it (None when none was made) and whether healing took place.
healMessage(r) ==
    IF r.shouldHeal /\ r.up.content # None /\ r.up.content[1] # <<>>
    THEN LET p == process(NewHealer(r.schema), r.up.content[1])
             f == finish(p.h)
         IN [content |-> Some(p.ret \o f.ret), h |-> Some(f.h), healed |-> TRUE]
    ELSE [content |-> r.up.content, h |-> None, healed |-> FALSE]

----------------------------------------------------------------------------
(* The proxy's actions. *)

Request(id) == requests[id]
\* A step of the proxy changes the request's locals and calls no healer but its own.
SetRequest(id, r) ==
    /\ requests' = [requests EXCEPT ![id] = r]
    /\ UNCHANGED healerVars
    /\ UNCHANGED callVars
SetHealer(id, h) == healers' = [healers EXCEPT ![slotOf(id)] = h]

\* url.pathname !== '/v1/chat/completions' || req.method !== 'POST'
notCompletions_PathOnly(r) == r.path # COMPLETIONS

notCompletions(r) == r.path # COMPLETIONS \/ r.method # "POST"

\* new Response(text, { status }): ok is what Response.ok tells of the status
Response(status, content) ==
    [status |-> status, ok |-> (status >= 200 /\ status <= 299), content |-> content]

NotFoundText == <<"N", "o", "t", " ", "F", "o", "u", "n", "d">>

\* any other path or method: 404, and nothing else happens
NotFound(id) ==
    /\ Request(id).pc = "received"
    /\ notCompletions(Request(id))
    /\ SetRequest(id, [Request(id) EXCEPT !.response = Some(Response(404, Some(NotFoundText))),
                                          !.pc = "done"])
    /\ UNCHANGED healers

\* req.json(), the decision, and the call of upstream
Receive(id) ==
    /\ Request(id).pc = "received"
    /\ ~notCompletions(Request(id))
    /\ LET d == lookAtFormat(Request(id).body) IN
        SetRequest(id, [Request(id) EXCEPT !.schema = d.schema,
                                           !.shouldHeal = d.shouldHeal,
                                           !.forwarded = Some(d.body),
                                           !.pc = "fetching"])
    /\ UNCHANGED healers

errorResponse_BadGateway(up) == Response(502, up.content)

\* new Response(await upstreamResponse.text(), { status: upstreamResponse.status })
errorResponse(up) == Response(up.status, up.content)

\* upstream answered with an error status: its body is returned as it is
UpstreamFails(id) ==
    /\ Request(id).pc = "fetching"
    /\ ~Request(id).up.ok
    /\ SetRequest(id, [Request(id) EXCEPT !.response = Some(errorResponse(Request(id).up)),
                                          !.pc = "done"])
    /\ UNCHANGED healers

\* upstreamResponse.body: null when the status is one that has no body
NullBodyStatuses == {204, 205}
bodyOf(up) == IF up.status \in NullBodyStatuses THEN None ELSE Some(up.body)

\* upstream answered a streaming request: the healer is made, the stream starts;
\* without a body to read the stream is closed at once
StartStream(id) ==
    /\ Request(id).pc = "fetching"
    /\ Request(id).up.ok
    /\ Request(id).body.stream
    /\ SetHealer(id, Some(NewHealer(Request(id).schema)))
    /\ IF bodyOf(Request(id).up) = None
       THEN SetRequest(id, [Request(id) EXCEPT !.closed = TRUE, !.pc = "done"])
       ELSE SetRequest(id, [Request(id) EXCEPT !.rest = bodyOf(Request(id).up)[1],
                                               !.pc = "reading"])

\* upstream answered a non-streaming request: the message is healed and returned
Respond(id) ==
    /\ Request(id).pc = "fetching"
    /\ Request(id).up.ok
    /\ ~Request(id).body.stream
    /\ LET m == healMessage(Request(id)) IN
        /\ SetRequest(id, [Request(id) EXCEPT
                              !.response = Some(Response(200, m.content)),
                              !.fed = IF m.healed THEN <<Request(id).up.content[1]>> ELSE @,
                              !.finished = m.healed,
                              !.finishes = IF m.healed THEN @ + 1 ELSE @,
                              !.pc = "done"])
        /\ IF m.healed THEN SetHealer(id, m.h) ELSE UNCHANGED healers

\* reader.read() resolves: with some of the bytes not yet read, or with done
Read(id) ==
    /\ Request(id).pc = "reading"
    /\ \/ /\ Request(id).rest = <<>>
          /\ SetRequest(id, [Request(id) EXCEPT
                                !.cur = Some([done |-> TRUE, value |-> <<>>]),
                                !.pc = "handling"])
       \/ \E n \in 1..Len(Request(id).rest) :
             SetRequest(id, [Request(id) EXCEPT
                                !.cur = Some([done |-> FALSE,
                                              value |-> SubSeq(Request(id).rest, 1, n)]),
                                !.rest = SubSeq(Request(id).rest, n + 1,
                                                Len(Request(id).rest)),
                                !.pc = "handling"])
    /\ UNCHANGED healers

\* the loop body, from the resolved read to the next read or the break
Handle(id) ==
    /\ Request(id).pc = "handling"
    /\ LET a == handleRead(Request(id), healers[slotOf(id)][1]) IN
        /\ SetRequest(id, a.r)
        /\ SetHealer(id, Some(a.h))

----------------------------------------------------------------------------
(* Requests and upstream answers. *)

\* {required: [a, default],
\*  properties: {a: {default: 1}, default: {default: "x"}}}
SchemaNamedDefault ==
    [required |-> <<ka, kdefault>>,
     properties |-> (ka :> [default |-> JNumber(<<"1">>)]
                     @@ kdefault :> [default |-> JString(<<"x">>)])]

RequestSchemas == {SchemaAB, SchemaDefaults, SchemaNamedDefault}

ResponseFormats ==
    {None, Some(ResponseFormat("text", None)), Some(ResponseFormat("json_object", None)),
     Some(ResponseFormat("json_schema", None))}
    \cup {Some(ResponseFormat("json_schema", Some(sch))) : sch \in RequestSchemas}

\* choices[0].message.content of a JSON answer: absent, empty, {"a":1 and a {"
MessageContents ==
    {None, Some(<<>>), Some(<<LBRACE>> \o KeyA \o <<"1">>),
     Some(<<"a", " ", LBRACE, QUOTE>>)}

\* The contents of the deltas of an SSE answer: up to MaxDeltas of them.
MaxDeltas == 2
DeltaContents == {<<>>, <<"a">>, <<LBRACE>>, KeyA \o <<"1">>}
DeltaLists == UNION {[1..n -> DeltaContents] : n \in 0..MaxDeltas}

RECURSIVE deltaLines(_)
deltaLines(contents) ==
    IF contents = <<>> THEN <<>>
    ELSE <<PREFIX, Json(Head(contents)), NL, NL>> \o deltaLines(Tail(contents))

\* An SSE answer: a chunk with the role or none, the deltas, [DONE] or none
SseBody(withRole, contents, withDone) ==
    (IF withRole THEN <<PREFIX, ROLE, NL, NL>> ELSE <<>>)
    \o deltaLines(contents)
    \o (IF withDone THEN <<PREFIX, DONE, NL, NL>> ELSE <<>>)

SseBodies == {SseBody(withRole, contents, withDone) :
                 withRole \in BOOLEAN, contents \in DeltaLists, withDone \in BOOLEAN}

\* upstreamResponse: its status, ok as Response.ok tells of it, and its body
Upstream(status, content, body) ==
    [status |-> status, ok |-> (status >= 200 /\ status <= 299),
     content |-> content, body |-> body]

Statuses == {200, 429, 500}
ErrorStatuses == {status \in Statuses : status < 200 \/ status > 299}

\* The request r sent with another method or to another path.
Routed(r, method, path) == [r EXCEPT !.method = method, !.path = path]
Methods == {"POST", "GET"}
Paths == {COMPLETIONS, "/v1/models"}

\* Every request with every answer: a JSON answer to a non-streaming request,
\* an SSE answer to a streaming one, an error answer to either, an answer without
\* body (204) to a streaming one; and requests with every method to every path.
Arrivals ==
    {NewRequest([response_format |-> rf, stream |-> FALSE], Upstream(status, content, <<>>)) :
        rf \in ResponseFormats, status \in Statuses, content \in MessageContents}
    \cup {NewRequest([response_format |-> rf, stream |-> TRUE], Upstream(200, None, body)) :
        rf \in ResponseFormats, body \in SseBodies}
    \cup {NewRequest([response_format |-> rf, stream |-> TRUE], Upstream(status, content, <<>>)) :
        rf \in ResponseFormats, status \in ErrorStatuses, content \in MessageContents}
    \cup {NewRequest([response_format |-> rf, stream |-> TRUE], Upstream(204, None, <<>>)) :
        rf \in ResponseFormats}
    \cup {Routed(NewRequest([response_format |-> rf, stream |-> stream],
                            Upstream(200, Some(<<LBRACE>>), SseBody(FALSE, <<<<LBRACE>>>>, TRUE))),
                 method, path) :
        rf \in ResponseFormats, stream \in BOOLEAN, method \in Methods, path \in Paths}

\* No healer of the healer's own state machine is in use.
NoHealerCall ==
    /\ schema = None
    /\ buffer = <<>>
    /\ hasStartedJson = FALSE
    /\ stack = <<>>
    /\ inString = FALSE
    /\ isEscaped = FALSE
    /\ pendingKeyBuffer = <<>>
    /\ input = <<>>
    /\ out = <<>>
    /\ ret = <<>>
    /\ call = "new"
    /\ calls = 0
    /\ mode = "none"

\* A connection on which no request has arrived yet.
Idle ==
    [NewRequest([response_format |-> None, stream |-> FALSE], Upstream(500, None, <<>>))
        EXCEPT !.pc = "idle"]

Listening(ids) ==
    /\ NoHealerCall
    /\ requests = [id \in ids |-> Idle]
    /\ healers = [slot \in ids |-> None]

\* A request arrives: fetch is called with it.
Arrive(id, arrivals) ==
    /\ Request(id).pc = "idle"
    /\ \E r \in arrivals : SetRequest(id, r)
    /\ UNCHANGED healers

Step(id) ==
    \/ NotFound(id)
    \/ Receive(id)
    \/ UpstreamFails(id)
    \/ StartStream(id)
    \/ Respond(id)
    \/ Read(id)
    \/ Handle(id)

\* SpecProxy: one request, any body, any answer.
OneClient == {1}
InitProxy == Listening(OneClient)

NextProxy == \E id \in OneClient : Arrive(id, Arrivals) \/ Step(id)

SpecProxy == InitProxy /\ [][NextProxy]_vars

\* The steps of a started stream: a read resolves, the loop body runs.
StreamStep == \E id \in OneClient : Read(id) \/ Handle(id)

\* The same, with a started stream going on: upstream delivers its bytes and its
\* end, and the event loop runs the loop body after each read.
SpecProxyLive == SpecProxy /\ WF_vars(StreamStep)

\* SpecPair: MaxClients requests in flight at once, their steps interleaved.
MaxClients == 2
Clients == 1..MaxClients

\* A healed stream, a stream without healing, two healed JSON answers, an error
\* answer and a request that is no POST.
PairArrivals ==
    {NewRequest([response_format |-> Some(ResponseFormat("json_schema", Some(SchemaAB))),
                 stream |-> TRUE],
                Upstream(200, None, SseBody(FALSE, <<<<LBRACE>>>>, FALSE))),
     NewRequest([response_format |-> None, stream |-> TRUE],
                Upstream(200, None, SseBody(FALSE, <<<<LBRACE>>>>, FALSE))),
     NewRequest([response_format |-> Some(ResponseFormat("json_object", None)),
                 stream |-> FALSE],
                Upstream(200, Some(<<LBRACE>> \o KeyA \o <<"1">>), <<>>)),
     NewRequest([response_format |-> Some(ResponseFormat("json_schema", Some(SchemaDefaults))),
                 stream |-> FALSE],
                Upstream(200, Some(<<LBRACE>> \o KeyA \o <<"1">>), <<>>)),
     NewRequest([response_format |-> Some(ResponseFormat("json_object", None)),
                 stream |-> FALSE],
                Upstream(500, Some(<<"a">>), <<>>)),
     Routed(NewRequest([response_format |-> Some(ResponseFormat("json_object", None)),
                        stream |-> FALSE],
                       Upstream(200, Some(<<LBRACE>>), <<>>)),
            "GET", COMPLETIONS)}

InitPair == Listening(Clients)

NextPair == \E id \in Clients : Arrive(id, PairArrivals) \/ Step(id)

SpecPair == InitPair /\ [][NextPair]_vars

----------------------------------------------------------------------------
(* Claims about the proxy *)

Answered(id) ==
    /\ Request(id).pc = "done"
    /\ ~notCompletions(Request(id))
    /\ ~Request(id).body.stream
    /\ Request(id).up.ok

\* The content the caller should get for upstream content c under response_format rf.
ExpectedContent(rf, c) ==
    IF rf # None /\ rf[1].type = "json_schema" /\ rf[1].schema # None
    THEN heal(rf[1].schema, c)
    ELSE IF rf # None /\ rf[1].type = "json_object" THEN heal(None, c)
    ELSE c

\* C16: the content returned for a non-streaming request is process(content) +
\* finish() of a fresh healer with the request's schema under json_schema with a
\* schema, of a fresh healer without schema under json_object, and the upstream
\* content itself under any other response_format or none.
C16_ConditionalHealing ==
    \A id \in DOMAIN requests :
        Answered(id) =>
            /\ Request(id).response # None
            /\ Request(id).response[1].ok
            /\ Request(id).response[1].content =
                  IF Request(id).up.content = None THEN None
                  ELSE Some(ExpectedContent(Request(id).body.response_format,
                                            Request(id).up.content[1]))

\* C16 witness: {"a":1 under a schema with defaults comes back with b and its
\* default injected.
C16_Witness ==
    /\ Answered(1)
    /\ Request(1).body.response_format = Some(ResponseFormat("json_schema", Some(SchemaDefaults)))
    /\ Request(1).up.content = Some(<<LBRACE>> \o KeyA \o <<"1">>)
    /\ Request(1).response[1].content =
          Some(<<LBRACE>> \o KeyA \o <<"1", COMMA>> \o KeyB \o <<"1", RBRACE>>)

\* C16 second witness: text with a preamble under no response_format comes back
\* as it is.
C16_WitnessUnchanged ==
    /\ Answered(1)
    /\ Request(1).body.response_format = None
    /\ Request(1).up.content = Some(<<"a", " ", LBRACE, QUOTE>>)
    /\ Request(1).response[1].content = Request(1).up.content

\* A schema node without the keyword default, at any depth, and otherwise as it is.
RECURSIVE withoutDefaultKeyword(_)
withoutDefaultKeyword(node) ==
    [key \in DOMAIN node \ {"default"} |->
        IF key \in {"properties", "definitions", "$defs"}
        THEN [k \in DOMAIN node[key] |-> withoutDefaultKeyword(node[key][k])]
        ELSE IF key = "items" THEN withoutDefaultKeyword(node[key])
        ELSE node[key]]

Forwarded(id) == Request(id).forwarded # None

\* C19: the schema forwarded upstream for a json_schema request is the caller's
\* schema without the keyword default at any depth and otherwise unchanged; the
\* healer is given the caller's schema as it came.
C19_DefaultStripping ==
    \A id \in DOMAIN requests :
        LET rf == Request(id).body.response_format IN
        (Forwarded(id) /\ rf # None /\ rf[1].type = "json_schema" /\ rf[1].schema # None) =>
            /\ Request(id).forwarded[1].response_format[1].schema =
                  Some(withoutDefaultKeyword(rf[1].schema[1]))
            /\ Request(id).forwarded[1].stream = Request(id).body.stream
            /\ Request(id).schema = rf[1].schema
            /\ healers[slotOf(id)] # None => healers[slotOf(id)][1].schema = rf[1].schema

Streaming(id) ==
    /\ ~notCompletions(Request(id))
    /\ Request(id).body.stream
    /\ Request(id).up.ok

\* The tokens of the upstream body that have been read, and its complete lines.
ArrivedTokens(id) ==
    SubSeq(Request(id).up.body, 1, Len(Request(id).up.body) - Len(Request(id).rest))
ArrivedLines(id) == Front(splitLines(ArrivedTokens(id), <<>>))

\* The non-empty delta contents carried by data lines, in order.
RECURSIVE deltasOf(_)
deltasOf(lines) ==
    IF lines = <<>> THEN <<>>
    ELSE LET line == Head(lines) IN
         (IF Len(line) = 2 /\ line[1] = PREFIX /\ line[2].kind = "json"
             /\ line[2].content # <<>>
          THEN <<line[2].content>> ELSE <<>>)
         \o deltasOf(Tail(lines))

\* process on each content in turn, then finish: the concatenation of what the
\* calls return.
RECURSIVE healChunks(_, _)
healChunks(h, contents) ==
    IF contents = <<>> THEN finish(h).ret
    ELSE LET r == process(h, Head(contents)) IN r.ret \o healChunks(r.h, Tail(contents))

\* What a client reads from the data frames sent: the concatenation of their
\* contents, None when a frame's content is no JSON string.
RECURSIVE contentOf(_)
contentOf(frames) ==
    IF frames = <<>> THEN Some(<<>>)
    ELSE LET rest == contentOf(Tail(frames)) IN
         IF Head(frames).kind # "data" THEN rest
         ELSE LET c == jsonUnescape(Head(frames).raw) IN
              IF c = None \/ rest = None THEN None ELSE Some(c[1] \o rest[1])

\* C17: in a streaming request with healing, between two reads the contents given
\* to process are exactly the delta contents of the data lines that have arrived,
\* in their order, and once the stream is closed the contents sent, tail included,
\* are the process outputs followed by finish().
C17_StreamingOrder ==
    \A id \in DOMAIN requests :
        (Streaming(id) /\ Request(id).shouldHeal /\ Request(id).pc \in {"reading", "done"}) =>
            /\ Request(id).fed = deltasOf(ArrivedLines(id))
            /\ Request(id).closed =>
                  contentOf(Request(id).sent) =
                      Some(healChunks(NewHealer(Request(id).schema),
                                      deltasOf(ArrivedLines(id))))

\* The upstream body has ended: every token has been read.
C18_Ended == Streaming(1) /\ Request(1).pc \in {"reading", "handling"} /\ Request(1).rest = <<>>
C18_Closed == Request(1).closed

DoneLine == <<PREFIX, DONE>>
C18_OneDone ==
    \A id \in DOMAIN requests :
        /\ \A j \in 1..Len(Request(id).sent) :
              /\ Request(id).sent[j] # LineFrame(DoneLine)
              /\ Request(id).sent[j] = DoneFrame => (j = Len(Request(id).sent) /\ Request(id).closed)
        /\ (Request(id).closed /\ bodyOf(Request(id).up) # None) =>
              (Request(id).sent # <<>> /\ Last(Request(id).sent) = DoneFrame)

\* C18: once the upstream body of a streaming request has ended the response
\* stream is eventually closed, with or without healing; upstream's [DONE] line is
\* never forwarded, and the one [DONE] frame sent is the last frame, after the tail.
C18_StreamingTermination == [](C18_OneDone) /\ (C18_Ended ~> C18_Closed)

\* The healer a request has if no one else touches it: a fresh one with the
\* request's schema, given the contents the request has fed, finished if the
\* request has called finish.
RECURSIVE feedAll(_, _)
feedAll(h, contents) ==
    IF contents = <<>> THEN h
    ELSE feedAll(process(h, Head(contents)).h, Tail(contents))

OwnHealer(id) ==
    LET h == feedAll(NewHealer(Request(id).schema), Request(id).fed) IN
    IF Request(id).finished THEN finish(h).h ELSE h

\* The request has made a healer.
HasHealer(id) ==
    \/ Streaming(id) /\ Request(id).pc \in {"reading", "handling", "done"}
    \/ Request(id).finished

\* C20: under any interleaving of the steps of concurrent requests, the healer a
\* request uses is one no other request has touched, and what the request returns
\* is what its own contents give with a healer of its own.
C20_Isolation ==
    \A id \in DOMAIN requests :
        /\ HasHealer(id) => healers[slotOf(id)] = Some(OwnHealer(id))
        /\ (Request(id).pc = "done" /\ Request(id).finished) =>
              LET alone == healChunks(NewHealer(Request(id).schema), Request(id).fed) IN
              IF Request(id).body.stream
              THEN contentOf(Request(id).sent) = Some(alone)
              ELSE Request(id).response[1].content = Some(alone)

\* C20 witness: one healed stream has closed with nothing but [DONE] while a
\* second healed stream is between a read and its handling, its healer as it was
\* made.
C20_Witness ==
    /\ Request(1).pc = "done"
    /\ Request(1).body.stream
    /\ Request(1).closed
    /\ Request(1).sent = <<DoneFrame>>
    /\ Request(2).pc = "handling"
    /\ Request(2).body.stream
    /\ Request(2).shouldHeal
    /\ healers[1] # None
    /\ healers[2] = Some(NewHealer(Some(SchemaAB)))

\* The request went to the completions path as a POST and upstream answered it
\* with an error status.
UpstreamFailed(id) ==
    /\ Request(id).pc # "idle"
    /\ ~notCompletions(Request(id))
    /\ ~Request(id).up.ok

\* C21: when upstream answers with a non-OK status the caller gets that status
\* and upstream's body as it is, and the request neither makes a healer nor calls
\* process or finish.
C21_UpstreamErrors ==
    \A id \in DOMAIN requests :
        UpstreamFailed(id) =>
            /\ healers[slotOf(id)] = None
            /\ Request(id).fed = <<>>
            /\ ~Request(id).finished
            /\ Request(id).sent = <<>>
            /\ Request(id).pc = "done" =>
                  /\ Request(id).response # None
                  /\ Request(id).response[1].status = Request(id).up.status
                  /\ Request(id).response[1].content = Request(id).up.content

\* C21 witness: a streaming json_schema request is answered 429 with the
\* truncated text {"a":1 for body, and the caller gets 429 and {"a":1.
C21_Witness ==
    /\ UpstreamFailed(1)
    /\ Request(1).pc = "done"
    /\ Request(1).body.stream
    /\ Request(1).shouldHeal
    /\ Request(1).up.status = 429
    /\ Request(1).response = Some(Response(429, Some(<<LBRACE>> \o KeyA \o <<"1">>)))

\* C22: a request to another path or with another method is answered 404 and is
\* never forwarded upstream: no body is read, no healer made, nothing sent.
C22_Routing ==
    \A id \in DOMAIN requests :
        (Request(id).path # COMPLETIONS \/ Request(id).method # "POST") =>
            /\ Request(id).pc \in {"received", "done"}
            /\ Request(id).forwarded = None
            /\ healers[slotOf(id)] = None
            /\ Request(id).sent = <<>>
            /\ Request(id).pc = "done" =>
                  /\ Request(id).response # None
                  /\ Request(id).response[1].status = 404

\* C22 witness: a GET to the completions path, which upstream would have
\* answered, has got its 404.
C22_Witness ==
    /\ Request(1).method = "GET"
    /\ Request(1).path = COMPLETIONS
    /\ Request(1).up.ok
    /\ Request(1).pc = "done"
    /\ Request(1).response = Some(Response(404, Some(NotFoundText)))
    /\ Request(1).forwarded = None

\* C22 second witness: a POST to another path has got its 404.
C22_WitnessPath ==
    /\ Request(1).method = "POST"
    /\ Request(1).path # COMPLETIONS
    /\ Request(1).pc = "done"
    /\ Request(1).response[1].status = 404

----------------------------------------------------------------------------
(* SpecScan: the scanner character by character.  The healer is given an   *)
(* opening text, or the empty text, and then up to MaxScan characters one   *)
(* at a time.                                                              *)

\* {required: [a, b],
\*  properties: {a: {items: {required: [b]}},
\*               b: {type: "array", items: {$ref: "#/definitions/I"}}},
\*  definitions: {I: {type: "object", required: [a]}}}
SchemaItems ==
    [required |-> <<ka, kb>>,
     properties |-> (ka :> [items |-> [required |-> <<kb>>]]
                     @@ kb :> [type |-> "array",
                               items |-> ("$ref" :> <<"#", "definitions", "I">>)]),
     definitions |-> [I |-> [type |-> "object", required |-> <<ka>>]]]

MaxScan == 3
ScanChars == {LBRACE, RBRACE, LBRACKET, RBRACKET, QUOTE, BACKSLASH, COMMA, COLON, "a"}

\* nothing   {"a":[   {"a":[{}   {"b":[{"a":1   {"b":"   {"a   ["   a: {"b":"\"
Openings ==
    {<<>>,
     <<LBRACE>> \o KeyA \o <<LBRACKET>>,
     <<LBRACE>> \o KeyA \o <<LBRACKET, LBRACE, RBRACE>>,
     <<LBRACE>> \o KeyB \o <<LBRACKET, LBRACE>> \o KeyA \o <<"1">>,
     <<LBRACE>> \o KeyB \o <<QUOTE>>,
     <<LBRACE, QUOTE, "a">>,
     <<LBRACKET, QUOTE>>,
     <<"a", COLON, " ", LBRACE>> \o KeyB \o <<QUOTE, BACKSLASH, QUOTE>>}

InitScan == Constructed({Some(SchemaItems)})

Open == \E text \in Openings :
            /\ call = "new"
            /\ Process(text)

Scan == \E c \in ScanChars :
            /\ call = "process"
            /\ calls - 1 < MaxScan
            /\ Process(<<c>>)

NextScan == Open \/ Scan \/ Finish

SpecScan == InitScan /\ [][NextScan]_vars

----------------------------------------------------------------------------
(* Claims about the scanner *)

\* The step is a call of process with the one character c.
ScansChar(c) == call' = "process" /\ ChunkOfStep = <<c>>

\* The closer and kind of every frame, and the current key of every frame.
FrameShapes(stk) == [d \in 1..Len(stk) |-> <<stk[d].char, stk[d].isObject>>]
CurrentKeys(stk) == [d \in 1..Len(stk) |-> stk[d].currentKey]

\* C23: once the preamble flush has started the healer on a buffer without opener,
\* and as long as no later chunk holds an opener, the stack is empty and finish
\* returns the empty string, whatever else the text holds.
C23_NoJsonNoTail ==
    (mode = "flush" /\ NoOpener(input)) =>
        /\ stack = <<>>
        /\ Finished => ret = <<>>

\* C24: a character consumed while inString holds leaves the number of frames and
\* each frame's closer and kind as they were, and as long as inString still holds
\* after it, each frame's current key as well; so an opener, a closer, a comma or
\* a colon inside a string has no structural effect.
C24_StepOpaque ==
    \A c \in ScanChars :
        (inString /\ ScansChar(c)) =>
            /\ FrameShapes(stack') = FrameShapes(stack)
            /\ inString' => CurrentKeys(stack') = CurrentKeys(stack)

C24_StringsOpaque == [][C24_StepOpaque]_vars

\* C24 witness: inside the value string of {"b":" the characters { , } have been
\* consumed; the one object frame is as it was, its current key b.
C24_Witness ==
    /\ input = <<LBRACE>> \o KeyB \o <<QUOTE, LBRACE, COMMA, RBRACE>>
    /\ inString
    /\ FrameShapes(stack) = <<<<RBRACE, TRUE>>>>
    /\ CurrentKeys(stack) = <<Some(kb)>>

\* The frames without hasContent: closer, kind, keys seen and current key.
FrameFields(stk) ==
    [d \in 1..Len(stk) |->
        <<stk[d].char, stk[d].isObject, stk[d].keysSeen, stk[d].currentKey>>]

ScannerFlags == <<inString, isEscaped, pendingKeyBuffer>>

\* C25: outside a string, { pushes an object frame with closer } and [ an array
\* frame with closer ], each with no key seen and no current key, on top of the
\* frames there were; } or ] pops the innermost frame if and only if there is one
\* and its closer is that character, and otherwise leaves the scanner state as it
\* was.
C25_StepPush ==
    \A c \in Openers :
        (~inString /\ ScansChar(c)) =>
            /\ Len(stack') = Len(stack) + 1
            /\ FrameFields(stack') =
                  Append(FrameFields(stack),
                         <<(IF c = LBRACE THEN RBRACE ELSE RBRACKET), c = LBRACE, {}, None>>)
            /\ ~Last(stack').hasContent
            /\ ScannerFlags' = ScannerFlags

C25_StepPop ==
    \A c \in {RBRACE, RBRACKET} :
        (hasStartedJson /\ ~inString /\ ScansChar(c)) =>
            /\ stack' = IF stack # <<>> /\ Last(stack).char = c THEN Front(stack) ELSE stack
            /\ ScannerFlags' = ScannerFlags

C25_PushPop == [][C25_StepPush /\ C25_StepPop]_vars

\* C25 witness: after {"a":[ the characters { ] } have been scanned: the object
\* was pushed, the ] that is not its closer was ignored, the } popped it.
C25_Witness ==
    /\ input = <<LBRACE>> \o KeyA \o <<LBRACKET, LBRACE, RBRACKET, RBRACE>>
    /\ ~inString
    /\ FrameShapes(stack) = <<<<RBRACE, TRUE>>, <<RBRACKET, FALSE>>>>

\* C25 second witness: a closer on the empty stack has been ignored.
C25_WitnessEmpty ==
    /\ input = <<LBRACKET, QUOTE, QUOTE, RBRACKET, RBRACE>>
    /\ hasStartedJson
    /\ stack = <<>>

\* C26: a call of process adds a name to a frame's keysSeen exactly at the
\* unescaped quote that ends a string while that frame is the innermost one, is
\* an object and has no current key: the name is the pending key, and it becomes
\* the frame's current key at the same step.  At every other character, and at
\* the quote that ends a string in an array or a value string, the keysSeen of
\* every frame stay as they were.
C26_StepRecord ==
    \A c \in ScanChars :
        ScansChar(c) =>
            IF /\ inString /\ ~isEscaped /\ c = QUOTE
               /\ stack # <<>> /\ Last(stack).isObject /\ Last(stack).currentKey = None
            THEN /\ Len(stack') = Len(stack)
                 /\ \A d \in 1..(Len(stack) - 1) : stack'[d].keysSeen = stack[d].keysSeen
                 /\ Last(stack').keysSeen = Last(stack).keysSeen \cup {pendingKeyBuffer}
                 /\ Last(stack').currentKey = Some(pendingKeyBuffer)
            ELSE \A d \in 1..Len(stack') :
                     stack'[d].keysSeen = IF d <= Len(stack) THEN stack[d].keysSeen ELSE {}

C26_KeyRecording == [][C26_StepRecord]_vars

\* C26 witness: the key aa of {"aa" has been recorded at its closing quote and is
\* the current key.
C26_Witness ==
    /\ input = <<LBRACE, QUOTE, "a", "a", QUOTE>>
    /\ ~inString
    /\ stack[1].keysSeen = {<<"a", "a">>}
    /\ stack[1].currentKey = Some(<<"a", "a">>)

\* C26 second witness: the value string of {"b":"a" has ended and only b is seen.
C26_WitnessValue ==
    /\ input = <<LBRACE>> \o KeyB \o <<QUOTE, "a", QUOTE>>
    /\ ~inString
    /\ stack[1].keysSeen = {kb}
    /\ stack[1].currentKey = Some(kb)

\* C26 third witness: the string of ["a" has ended and the array has seen no key.
C26_WitnessArray ==
    /\ input = <<LBRACKET, QUOTE, "a", QUOTE>>
    /\ ~inString
    /\ stack[1].keysSeen = {}

\* The schema governing the items of the array frame d, None when unknown.
ItemsOf(d) ==
    LET arr == getSchemaAt(schema[1], stack, d) IN
    IF arr = None \/ ~Has(arr[1], "items") THEN None
    ELSE resolveRef(schema[1], arr[1].items, MAX_REF_DEPTH)

\* C27: a comma outside a string sets the current key of the innermost frame to
\* none if that frame is an object and changes nothing else; when the innermost
\* frame is an array, or there is no frame, it changes nothing at all.  So the
\* object around an array keeps the current key that names the array, and every
\* item of the array, the first and the later ones, is governed by the items
\* schema of that array.
C27_StepComma ==
    (hasStartedJson /\ ~inString /\ ScansChar(COMMA)) =>
        /\ stack' = IF stack # <<>> /\ Last(stack).isObject
                    THEN [stack EXCEPT ![Len(stack)].currentKey = None]
                    ELSE stack
        /\ ScannerFlags' = ScannerFlags

C27_SameItems ==
    \A d \in 1..(Len(stack) - 1) :
        ~stack[d].isObject => getSchemaAt(schema[1], stack, d + 1) = ItemsOf(d)

C27_CommaEffect == [][C27_StepComma]_vars /\ [](C27_SameItems)

\* C27 witness: in {"a":[{},{ the second item is open after the comma; the root
\* still has current key a, the item is governed by the items schema of a, and
\* finish injects its required b.
C27_Witness ==
    /\ input = <<LBRACE>> \o KeyA \o <<LBRACKET, LBRACE, RBRACE, COMMA, LBRACE>>
    /\ Finished
    /\ stack[1].currentKey = Some(ka)
    /\ getSchemaAt(schema[1], stack, 3) = Some([required |-> <<kb>>])
    /\ ret = KeyB \o NullText \o <<RBRACE, RBRACKET, COMMA>> \o KeyB \o NullText \o <<RBRACE>>

\* C27 second witness: in {"b":[{"a":1, the comma inside the item has reset the
\* current key of the item and left the current key b of the root.
C27_WitnessObject ==
    /\ input = <<LBRACE>> \o KeyB \o <<LBRACKET, LBRACE>> \o KeyA \o <<"1", COMMA>>
    /\ CurrentKeys(stack) = <<Some(kb), None, None>>

\* C28: inside a string a backslash that is not itself escaped sets isEscaped, and
\* the one character after it is consumed with no effect but clearing isEscaped:
\* an escaped quote does not end the string, and the character after an escaped
\* backslash is scanned as any other, a quote there ending the string.  A
\* complete document, escaped quotes in its strings or not, leaves the stack
\* empty and inString false, and finish returns the empty string.
C28_StepEscape ==
    \A c \in ScanChars :
        (inString /\ ScansChar(c)) =>
            /\ isEscaped =>
                  /\ ~isEscaped'
                  /\ inString'
                  /\ stack' = stack
                  /\ pendingKeyBuffer' = pendingKeyBuffer
            /\ (~isEscaped /\ c = BACKSLASH) =>
                  /\ isEscaped'
                  /\ inString'
                  /\ stack' = stack
                  /\ pendingKeyBuffer' = pendingKeyBuffer
            /\ (~isEscaped /\ c # BACKSLASH) => (~isEscaped' /\ (inString' <=> c # QUOTE))

C28_Complete ==
    /\ isEscaped => inString
    /\ (hasStartedJson /\ ValidJson(out)) =>
          /\ stack = <<>>
          /\ ~inString
          /\ Finished => ret = <<>>

C28_EscapeHandling == [][C28_StepEscape]_vars /\ [](C28_Complete)

\* C28 witness: a: {"b":"\""} has been fed and finished: the escaped quote did not
\* end the string, the next quote did, and finish returned the empty string.
C28_Witness ==
    /\ Finished
    /\ out = <<LBRACE>> \o KeyB \o <<QUOTE, BACKSLASH, QUOTE, QUOTE, RBRACE>>
    /\ stack = <<>>
    /\ ~inString
    /\ ret = <<>>

\* C28 second witness: in ["\\" the second backslash was escaped by the first,
\* and the quote after it has ended the string.
C28_WitnessBackslash ==
    /\ input = <<LBRACKET, QUOTE, BACKSLASH, BACKSLASH, QUOTE>>
    /\ ~inString
    /\ ~isEscaped

\* C29: finish, called with inString true, adds the pending key to the keysSeen of
\* the innermost frame if that frame is an object without current key, the open
\* string being a key; when the open string is a value, or the innermost frame is
\* an array, or no string is open, finish leaves the keysSeen of every frame as
\* they were.
C29_StepFinish ==
    (call # "finish" /\ call' = "finish" /\ hasStartedJson) =>
        stack' = IF /\ inString
                    /\ stack # <<>>
                    /\ Last(stack).isObject
                    /\ Last(stack).currentKey = None
                 THEN [stack EXCEPT ![Len(stack)].keysSeen = @ \cup {pendingKeyBuffer}]
                 ELSE stack

C29_WitnessValue ==
    /\ Finished
    /\ input = <<LBRACE>> \o KeyB \o <<QUOTE, "a">>
    /\ inString
    /\ stack[1].keysSeen = {kb}

\* C29 third witness: {"a":["a was finished with a string open in an array; the
\* array has seen no key and the object only a.
C29_WitnessArray ==
    /\ Finished
    /\ input = <<LBRACE>> \o KeyA \o <<LBRACKET, QUOTE, "a">>
    /\ inString
    /\ stack[1].keysSeen = {ka}
    /\ stack[2].keysSeen = {}

----------------------------------------------------------------------------
(* Claims about the resolver's walk *)

\* A schema node without the keyword type, at any depth, and otherwise as it is.
RECURSIVE withoutType(_)
withoutType(node) ==
    [key \in DOMAIN node \ {"type"} |->
        IF key \in {"properties", "definitions", "$defs"}
        THEN [k \in DOMAIN node[key] |-> withoutType(node[key][k])]
        ELSE IF key = "items" THEN withoutType(node[key])
        ELSE node[key]]

\* One step down from frame d, whose governing sub-schema is `parent`.
ChildOf(parent, d) ==
    IF parent = None THEN None
    ELSE IF ~stack[d].isObject
    THEN (IF Has(parent[1], "items")
          THEN resolveRef(schema[1], parent[1].items, MAX_REF_DEPTH)
          ELSE None)
    ELSE IF /\ stack[d].currentKey # None
            /\ Has(parent[1], "properties")
            /\ stack[d].currentKey[1] \in DOMAIN parent[1].properties
    THEN resolveRef(schema[1], parent[1].properties[stack[d].currentKey[1]], MAX_REF_DEPTH)
    ELSE None

\* C30: the root frame is governed by the root schema, resolved; the frame above
\* frame d is governed by the items of frame d's sub-schema when frame d is an
\* array and items exists, by properties[k] when frame d is an object with current
\* key k and properties[k] exists, each resolved through $ref, and by nothing known
\* otherwise.  The walk does not look at type: on the schema with every type
\* removed it leads to the same node, its type removed.
C30_Walk ==
    schema # None =>
        /\ stack # <<>> =>
              getSchemaAt(schema[1], stack, 1) = resolveRef(schema[1], schema[1], MAX_REF_DEPTH)
        /\ \A d \in 1..(Len(stack) - 1) :
              getSchemaAt(schema[1], stack, d + 1) =
                  ChildOf(getSchemaAt(schema[1], stack, d), d)

C30_TypeBlind ==
    schema # None =>
        \A d \in 1..Len(stack) :
            LET typed == getSchemaAt(schema[1], stack, d)
                untyped == getSchemaAt(withoutType(schema[1]), stack, d)
            IN IF typed = None THEN untyped = None
               ELSE untyped = Some(withoutType(typed[1]))

C30_WitnessUnknown ==
    /\ input = <<LBRACE>> \o KeyB \o <<LBRACKET, LBRACE>> \o KeyA \o <<"1", COMMA, LBRACE>>
    /\ getSchemaAt(schema[1], stack, 3) = Some([type |-> "object", required |-> <<ka>>])
    /\ getSchemaAt(schema[1], stack, 4) = None

----------------------------------------------------------------------------
(* SpecKeys: prefixes of JSON documents whose keys may hold an escape,     *)
(* under schemas with and without `type` and with a repeated required name. *)

\* {type: "object", required: [a, b],
\*  properties: {a: {required: [b]}, b: {type: "object", required: [a]}}}
SchemaTyped ==
    [type |-> "object",
     required |-> <<ka, kb>>,
     properties |-> (ka :> [required |-> <<kb>>]
                     @@ kb :> [type |-> "object", required |-> <<ka>>])]

\* {required: [a, a, b]}
SchemaRepeat == [required |-> <<ka, ka, kb>>]

\* The key "\"a" with its colon: the name is a quote followed by a.
KeyEsc == <<QUOTE, BACKSLASH, QUOTE, "a", QUOTE, COLON>>

KeyTokens == Tokens \cup {KeyEsc}

InitKeys == Constructed({Some(SchemaAB), Some(SchemaTyped), Some(SchemaRepeat)})

FeedKeys == \E chunk \in KeyTokens :
                /\ calls < MaxTokens
                /\ GeneratedJson(input \o chunk)
                /\ Process(chunk)

NextKeys == FeedKeys \/ Finish \/ FinishAgain

SpecKeys == InitKeys /\ [][NextKeys]_vars

C31_WitnessNested ==
    /\ Finished
    /\ schema = Some(SchemaTyped)
    /\ Len(stack) = 2
    /\ stack[1].currentKey = Some(ka)
    /\ Governed(2)
    /\ ~Has(Governing(2), "type")
    /\ ParseInjection(SegmentOf(2).text).keys = <<kb>>

\* The names of the properties being expanded, read from the text by the JSON
\* grammar: one entry per open container, for an object the decoded name of the
\* last key read in it (None before its first key and for an array).  State:
\* the grammar's state, the path, and the decoded characters of the string read.
NameStart == [p |-> JsonStart, path |-> <<>>, cur |-> <<>>]

\* The character an escape sequence stands for.
decodeEscape(c) ==
    IF c = "n" THEN "\n"
    ELSE IF c = "t" THEN "\t"
    ELSE IF c = "r" THEN "\r"
    ELSE IF c = "f" THEN "\f"
    ELSE IF c = "b" THEN "backspace"
    ELSE c

nameStep(t, c) ==
    LET q == jsonStep(t.p, c) IN
    IF t.p.mode = "str" THEN
        IF c = QUOTE THEN
            [p |-> q, cur |-> <<>>,
             path |-> IF t.p.isKey
                      THEN [t.path EXCEPT ![Len(t.path)] = Some(t.cur)]
                      ELSE t.path]
        ELSE IF c = BACKSLASH THEN [t EXCEPT !.p = q]
        ELSE [t EXCEPT !.p = q, !.cur = Append(@, c)]
    ELSE IF t.p.mode = "esc" THEN
        IF c \in SimpleEscapes
        THEN [t EXCEPT !.p = q, !.cur = Append(@, decodeEscape(c))]
        ELSE [t EXCEPT !.p = q]
    ELSE IF Len(q.stk) > Len(t.p.stk) THEN [t EXCEPT !.p = q, !.path = Append(@, None)]
    ELSE IF Len(q.stk) < Len(t.p.stk) THEN [t EXCEPT !.p = q, !.path = Front(@)]
    ELSE [t EXCEPT !.p = q, !.cur = <<>>]

RECURSIVE nameRun(_, _)
nameRun(t, text) ==
    IF text = <<>> THEN t ELSE nameRun(nameStep(t, Head(text)), Tail(text))

NamesOf(text) == nameRun(NameStart, text).path

\* C32: while scanning a prefix of a valid JSON document, every object frame that
\* is not the innermost frame has currentKey equal to the name of the property
\* whose value is the frame directly above it on the stack.
C32_ParentKey ==
    (call = "process" /\ input = out /\ JsonPrefix(input)) =>
        /\ Len(NamesOf(input)) = Len(stack)
        /\ \A d \in 1..(Len(stack) - 1) :
              stack[d].isObject => stack[d].currentKey = NamesOf(input)[d]

\* C32 for keys written without a backslash.
C32_PlainKeys ==
    (call = "process" /\ input = out /\ JsonPrefix(input)
     /\ \A j \in 1..Len(input) : input[j] # BACKSLASH) =>
        /\ Len(NamesOf(input)) = Len(stack)
        /\ \A d \in 1..(Len(stack) - 1) :
              stack[d].isObject => stack[d].currentKey = NamesOf(input)[d]

----------------------------------------------------------------------------
(* SpecBound: text around the preamble bound, fed in blocks of 250         *)
(* characters, single letters and openers.                                 *)

BoundChunks == {Block, <<"a">>, <<LBRACE>>}

FeedBound == \E chunk \in BoundChunks :
                 /\ calls < MaxCalls
                 /\ Process(chunk)

NextBound == FeedBound \/ Finish

SpecBound == InitFlush /\ [][NextBound]_vars

(* Claims about the preamble buffer (SpecBound) *)

\* C33: after every process call, while started is false the preamble buffer is
\* the whole input received so far, holds no `{` or `[` and has at most
\* MAX_PREAMBLE_BUFFER (500) characters; once started is true the buffer is empty
\* and stays empty, started never being reset.
C33_Buffer ==
    /\ ~hasStartedJson =>
          /\ buffer = input
          /\ NoOpener(buffer)
          /\ Len(buffer) <= 500
    /\ hasStartedJson => buffer = <<>>

C33_StepStays == hasStartedJson => (hasStartedJson' /\ buffer' = <<>>)

C33_PreambleBuffer == [][C33_StepStays]_vars /\ [](C33_Buffer)

\* C33 witness: after two process calls the buffer holds exactly 500 characters,
\* the whole input, and the healer has not started.
C33_Witness ==
    /\ call = "process"
    /\ calls = 2
    /\ ~hasStartedJson
    /\ Len(buffer) = 500
    /\ buffer = input

\* C33 second witness: the flush emptied the buffer, and a later process call left
\* it empty.
C33_WitnessFlushed ==
    /\ call = "process"
    /\ mode = "flush"
    /\ hasStartedJson
    /\ Len(input) = 502
    /\ buffer = <<>>

\* C33 third witness: an opener after buffered text emptied the buffer.
C33_WitnessOpener ==
    /\ call = "process"
    /\ mode = "opener"
    /\ Len(input) = BlockLen + 2
    /\ input[BlockLen + 1] = LBRACE
    /\ buffer = <<>>

----------------------------------------------------------------------------
(* Claims about what finish changes (SpecKeys) *)

\* C34 as stated: finish leaves every part of the healer state unchanged (started,
\* the buffer, inString, isEscaped, the pending key, the stack with each frame's
\* keysSeen and currentKey), so a second finish returns the same string.
C34_StepPure ==
    (call' \in {"finish", "again"}) =>
        /\ UNCHANGED healerVars
        /\ (call' = "again" => ret' = ret)

C34_StepFinish ==
    (call' \in {"finish", "again"}) =>
        /\ UNCHANGED <<schema, buffer, hasStartedJson, inString, isEscaped, pendingKeyBuffer>>
        /\ Len(stack') = Len(stack)
        /\ \A d \in 1..Len(stack) :
              stack'[d] =
                  IF /\ d = Len(stack)
                     /\ hasStartedJson
                     /\ inString
                     /\ stack[d].isObject
                     /\ stack[d].currentKey = None
                  THEN [stack[d] EXCEPT !.keysSeen = @ \cup {pendingKeyBuffer}]
                  ELSE stack[d]
        /\ (call' = "again") => (ret' = ret /\ UNCHANGED healerVars)

C34_WitnessClosed ==
    /\ call = "again"
    /\ input = <<LBRACE>> \o KeyA \o <<"1">>
    /\ stack[1].keysSeen = {ka}
    /\ ret = <<COMMA, QUOTE, "b", QUOTE, COLON>> \o NullText \o <<RBRACE>>

----------------------------------------------------------------------------
(* Claims about chunk boundaries (SpecFlush, Spec) *)

\* C36: for every input text, the process outputs followed by the finish output
\* are the same for every way of splitting the text into chunks, the text fed as
\* one chunk among them, also when the first opener comes after more than 500
\* characters of preamble.
C36_ChunkIndependent ==
    Finished => Healed = heal(schema, input)

\* C36 for texts whose first 501 characters hold an opener, or that have at most
\* 500 characters.
C36_WithinBound ==
    (Finished /\ (Len(input) <= 500 \/ ~NoOpener(SubSeq(input, 1, 501)))) =>
        Healed = heal(schema, input)

----------------------------------------------------------------------------
(* Claims about repeated names (SpecKeys) *)

\* The names injected into frame d of the finished healer, read from the tail.
InjectedKeys(d) == ParseInjection(SegmentOf(d).text).keys

C37_NotSeen ==
    (Finished /\ hasStartedJson) =>
        \A d \in 1..Len(stack) :
            Governed(d) =>
                \A j \in 1..Len(InjectedKeys(d)) :
                    InjectedKeys(d)[j] \notin stack[d].keysSeen

\* C37 for required lists that name no property twice.
C37_DistinctRequired ==
    (Finished /\ hasStartedJson) =>
        \A d \in 1..Len(stack) :
            (Governed(d) /\ Cardinality(Range(Governing(d).required))
                               = Len(Governing(d).required)) =>
                \A i, j \in 1..Len(InjectedKeys(d)) :
                    i # j => InjectedKeys(d)[i] # InjectedKeys(d)[j]

----------------------------------------------------------------------------
(* Claims about the healer's lifecycle in the proxy (SpecProxy) *)

\* The request heals and has made its healer.
HealerUsed(id) ==
    /\ ~notCompletions(Request(id))
    /\ Request(id).up.ok
    /\ Request(id).shouldHeal
    /\ healers[slotOf(id)] # None

\* No step calls process on a healer that has been finished, and a step calls
\* finish at most once.
C35_StepOrder ==
    \A id \in DOMAIN requests :
        /\ Request(id).finishes > 0 =>
              (requests'[id].fed = Request(id).fed
               /\ requests'[id].finishes = Request(id).finishes)
        /\ requests'[id].finishes \in {Request(id).finishes, Request(id).finishes + 1}

\* C35 as stated: for every healed request, streaming or not, finish is called
\* exactly once on the request's healer, after the last process call, and process
\* is never called on a healer after its finish.
C35_OnceAlways ==
    \A id \in DOMAIN requests :
        /\ Request(id).finishes <= 1
        /\ (HealerUsed(id) /\ Request(id).pc = "done") => Request(id).finishes = 1

C35_Lifecycle == [][C35_StepOrder]_vars /\ [](C35_OnceAlways)

\* C35 amended: finish is called at most once on a request's healer, after the
\* last process call, and process is never called after it; when the response of
\* a healed request is complete finish has been called exactly once, except for
\* a streaming request whose upstream answer has no body: its healer is made and
\* dropped without a call.
C35_OnceWithBody ==
    \A id \in DOMAIN requests :
        /\ Request(id).finishes <= 1
        /\ (HealerUsed(id) /\ Request(id).pc = "done") =>
              Request(id).finishes =
                  IF Request(id).body.stream /\ bodyOf(Request(id).up) = None THEN 0 ELSE 1
        /\ ~Request(id).shouldHeal => (Request(id).finishes = 0 /\ Request(id).fed = <<>>)
        /\ Request(id).finishes = 1 =>
              healers[slotOf(id)] =
                  Some(finish(feedAll(NewHealer(Request(id).schema), Request(id).fed)).h)

C35_LifecycleAmended == [][C35_StepOrder]_vars /\ [](C35_OnceWithBody)

\* C35 witness: a healed streaming request whose upstream body has been read to
\* its end: finish was called once, and the stream is closed.
C35_Witness ==
    /\ HealerUsed(1)
    /\ Request(1).body.stream
    /\ Request(1).up.body # <<>>
    /\ Request(1).pc = "done"
    /\ Request(1).closed
    /\ Request(1).finishes = 1

\* C35 second witness: a healed non-streaming request: process, then finish once.
C35_WitnessMessage ==
    /\ HealerUsed(1)
    /\ ~Request(1).body.stream
    /\ Request(1).pc = "done"
    /\ Request(1).fed = <<<<LBRACE>> \o KeyA \o <<"1">>>>
    /\ Request(1).finishes = 1

\* C35 third witness: a healed streaming request answered 204 without body: the
\* stream is closed and finish was not called.
C35_WitnessNoBody ==
    /\ HealerUsed(1)
    /\ Request(1).body.stream
    /\ Request(1).up.status = 204
    /\ Request(1).pc = "done"
    /\ Request(1).closed
    /\ Request(1).finishes = 0

\* C38: the contents given to the healer of a healed streaming request depend on
\* the upstream body only, not on how its bytes are split across reads: between
\* two reads they are the deltas of the data lines whose line feed has arrived,
\* each given once, and when finish is called they are the deltas of every data
\* line of the body, a last line without line feed included.
C38_Reassembly ==
    \A id \in DOMAIN requests :
        (Streaming(id) /\ Request(id).shouldHeal /\ bodyOf(Request(id).up) # None) =>
            /\ Request(id).pc = "reading" =>
                  Request(id).fed = deltasOf(ArrivedLines(id))
            /\ Request(id).finishes > 0 =>
                  Request(id).fed = deltasOf(splitLines(Request(id).up.body, <<>>))

----------------------------------------------------------------------------
(* Claims about the frame that carries the tail (Spec, SpecSchemas) *)

\* C39: for every non-empty string finish returns (one with a backslash, from a
\* buffer that never started or from a default value, included), the frame
\* synthesized for it is one data line whose payload is valid JSON and whose
\* choices[0].delta.content decodes to exactly that string.
C39_TailFrameDecodes ==
    (Finished /\ ret # <<>>) =>
        /\ TailFrame(ret).kind = "data"
        /\ \A j \in 1..Len(TailFrame(ret).raw) : TailFrame(ret).raw[j] # "\n"
        /\ jsonUnescape(TailFrame(ret).raw) = Some(ret)

\* C39 for tails that hold no backslash.
C39_WithoutBackslash ==
    (Finished /\ ret # <<>> /\ \A j \in 1..Len(ret) : ret[j] # BACKSLASH) =>
        /\ TailFrame(ret).kind = "data"
        /\ jsonUnescape(TailFrame(ret).raw) = Some(ret)

====
